---- MODULE Spec2Model ----
(***************************************************************************)
(* Model of the request gateway of src/src/lib.rs: the inbound handler     *)
(* (routing, parameter parsing, response composition) and the poll-driven  *)
(* engines it calls (DNS resolution, TCP connect/write/read, HTTP client). *)
(*                                                                         *)
(* Text is modelled as a sequence of one-character strings (one element    *)
(* per byte).  A few elements stand for bytes that have no ASCII spelling: *)
(*   "U+2705", "U+26A0", "U+FE0F", "U+1F527", "U+1F4E1"  the emoji of the  *)
(*              narratives,                                                *)
(*   "U+FFFD"   the replacement character of from_utf8_lossy,              *)
(*   "NUL"      a zero byte,   "LF", "CR"  line terminators,               *)
(*   "0xC3" "0xA9"  the lead and the continuation byte of a two-byte UTF-8 *)
(*              character,                                                 *)
(*   "BLOCK4096"  a run of 4096 non-zero bytes delivered by a peer.        *)
(***************************************************************************)
EXTENDS Integers, Sequences, FiniteSets, TLC

(***************************************************************************)
(* Text helpers (Rust str / slice operations used by the source)           *)
(***************************************************************************)

\* A string literal as a sequence of one-character strings.
Chars(s) == [i \in 1..Len(s) |-> SubSeq(s, i, i)]

\* str::find(ch): the first index of ch in s, 0 when absent.
FindChar(s, ch) ==
    LET at == {i \in 1..Len(s) : s[i] = ch}
    IN  IF at = {} THEN 0 ELSE CHOOSE i \in at : \A j \in at : i <= j

\* str::starts_with / str::strip_prefix test.
StartsWith(s, p) == Len(s) >= Len(p) /\ SubSeq(s, 1, Len(p)) = p

\* s with its first n elements removed.
Drop(s, n) == SubSeq(s, n + 1, Len(s))

\* str::contains for a sub-sequence.
Contains(s, p) == \E i \in 0..(Len(s) - Len(p)) : SubSeq(s, i + 1, i + Len(p)) = p

\* str::split(ch): all fields, empty ones included ("" gives one empty field).
RECURSIVE Split(_, _)
Split(s, ch) ==
    LET i == FindChar(s, ch)
    IN  IF i = 0 THEN <<s>>
        ELSE <<SubSeq(s, 1, i - 1)>> \o Split(Drop(s, i), ch)

\* str::splitn(2, ch): at most two fields, cut at the first ch.
SplitN2(s, ch) ==
    LET i == FindChar(s, ch)
    IN  IF i = 0 THEN <<s>> ELSE <<SubSeq(s, 1, i - 1), Drop(s, i)>>

Digits == Chars("0123456789")

\* The value of a decimal digit character, -1 for any other character.
DigitVal(c) == FindChar(Digits, c) - 1

\* u64::to_string: decimal text of a natural number.
RECURSIVE ToDec(_)
ToDec(n) == IF n < 10 THEN <<Digits[n + 1]>> ELSE ToDec(n \div 10) \o <<Digits[(n % 10) + 1]>>

\* Left-to-right accumulation of decimal digits with the overflow check of
\* the unsigned parse: -1 on a non-digit or once the value exceeds max.
RECURSIVE AccDigits(_, _, _)
AccDigits(s, acc, max) ==
    IF s = <<>> THEN acc
    ELSE LET d == DigitVal(Head(s))
         IN  IF d < 0 THEN -1
             ELSE IF acc * 10 + d > max THEN -1
             ELSE AccDigits(Tail(s), acc * 10 + d, max)

\* str::parse::<uN>() with uN::MAX = max: an optional single '+', then at
\* least one decimal digit, value at most max.  -1 stands for Err.
ParseUnsigned(s, max) ==
    IF s = <<>> THEN -1
    ELSE LET body == IF Head(s) = "+" THEN Tail(s) ELSE s
         IN  IF body = <<>> THEN -1 ELSE AccDigits(body, 0, max)

U16Max == 65535
U8Max == 255

ParseU16(s) == ParseUnsigned(s, U16Max)
ParseU8(s) == ParseUnsigned(s, U8Max)

\* hex(c): the value of a hexadecimal digit, -1 for None.
hex(c) ==
    LET lo == FindChar(Chars("0123456789abcdef"), c)
        up == FindChar(Chars("0123456789ABCDEF"), c)
    IN  IF lo > 0 THEN lo - 1 ELSE IF up > 0 THEN up - 1 ELSE -1

\* The printable ASCII characters, code 32 first.
\* (code 96, the grave accent, cannot be written in a string: "GRAVE").
Ascii ==
    Chars(" !\"#$%&'()*+,-./0123456789:;<=>?@ABCDEFGHIJKLMNOPQRSTUVWXYZ[\\]^_")
    \o <<"GRAVE">> \o Chars("abcdefghijklmnopqrstuvwxyz{|}~")

\* String::from_utf8_lossy of one decoded byte standing alone.
ByteToChar(b) ==
    IF b >= 32 /\ b <= 126 THEN Ascii[b - 31]
    ELSE IF b = 0 THEN "NUL"
    ELSE IF b = 10 THEN "LF"
    ELSE IF b = 13 THEN "CR"
    ELSE IF b >= 128 THEN "U+FFFD"
    ELSE "CTL"

\* percent_decode: %XY with two hex digits becomes the byte, anything else is
\* copied through.
RECURSIVE percent_decode(_)
percent_decode(s) ==
    IF s = <<>> THEN <<>>
    ELSE IF s[1] = "%" /\ Len(s) >= 3 /\ hex(s[2]) >= 0 /\ hex(s[3]) >= 0
         THEN <<ByteToChar(hex(s[2]) * 16 + hex(s[3]))>> \o percent_decode(Drop(s, 3))
         ELSE <<s[1]>> \o percent_decode(Tail(s))

\* HashMap::insert on a map kept as a function from keys to values.
MapInsert(m, k, v) == [x \in (DOMAIN m) \cup {k} |-> IF x = k THEN v ELSE m[x]]

EmptyMap == [x \in {} |-> <<>>]

RECURSIVE InsertPairs(_, _)
InsertPairs(m, pairs) ==
    IF pairs = <<>> THEN m
    ELSE LET pair == Head(pairs)
             kv == SplitN2(pair, "=")
             k == kv[1]
             v == IF Len(kv) = 2 THEN kv[2] ELSE <<>>
         IN  IF pair = <<>> \/ k = <<>>
             THEN InsertPairs(m, Tail(pairs))
             ELSE InsertPairs(MapInsert(m, percent_decode(k), percent_decode(v)), Tail(pairs))

\* parse_query_params: '&'-separated key=value pairs, percent-decoded, a
\* later pair with the same key replacing an earlier one.
parse_query_params(qs) == InsertPairs(EmptyMap, Split(qs, "&"))

\* HashMap::get(key).cloned().unwrap_or_default()
GetOrEmpty(m, k) == IF k \in DOMAIN m THEN m[k] ELSE <<>>

\* split_path_and_query: cut at the first '?'; the query is an Option.
split_path_and_query_unsplit(pq) == [path |-> pq, query |-> [some |-> FALSE, text |-> <<>>]]
split_path_and_query(pq) ==
    LET i == FindChar(pq, "?")
    IN  IF i = 0 THEN [path |-> pq, query |-> [some |-> FALSE, text |-> <<>>]]
        ELSE [path |-> SubSeq(pq, 1, i - 1), query |-> [some |-> TRUE, text |-> Drop(pq, i)]]

\* parse_ipv4: exactly four '.'-separated fields, each parsed as u8.
\* <<>> stands for None, <<a, b, c, d>> for Some((a, b, c, d)).
parse_ipv4(s) ==
    LET parts == Split(s, ".")
    IN  IF Len(parts) # 4 THEN <<>>
        ELSE IF \E i \in 1..4 : ParseU8(parts[i]) < 0 THEN <<>>
        ELSE [i \in 1..4 |-> ParseU8(parts[i])]


\* str::len(): the byte length, the multi-byte elements counted at their
\* UTF-8 width.
ByteWidth(c) ==
    IF c \in {"U+2705", "U+26A0", "U+FE0F", "U+FFFD"} THEN 3
    ELSE IF c \in {"U+1F527", "U+1F4E1"} THEN 4
    ELSE IF c = "BLOCK4096" THEN 4096
    ELSE 1
RECURSIVE ByteLen(_)
ByteLen(s) ==
    IF Len(s) = 0 THEN 0
    ELSE IF Len(s) = 1 THEN ByteWidth(s[1])
    ELSE LET h == Len(s) \div 2
         IN  ByteLen(SubSeq(s, 1, h)) + ByteLen(SubSeq(s, h + 1, Len(s)))

\* str::replace('"', "\\\""): every double quote preceded by a backslash.
RECURSIVE EscapeQuotes(_)
EscapeQuotes(s) ==
    IF Len(s) = 0 THEN <<>>
    ELSE IF Len(s) = 1 THEN (IF s[1] = "\"" THEN <<"\\", "\"">> ELSE s)
    ELSE LET h == Len(s) \div 2
         IN  EscapeQuotes(SubSeq(s, 1, h)) \o EscapeQuotes(SubSeq(s, h + 1, Len(s)))

\* str::trim(): leading and trailing white space removed.
IsSpace(c) == c \in {" ", "LF", "CR"}
RECURSIVE TrimStart(_)
TrimStart(s) == IF s # <<>> /\ IsSpace(Head(s)) THEN TrimStart(Tail(s)) ELSE s
RECURSIVE TrimEnd(_)
TrimEnd(s) == IF s # <<>> /\ IsSpace(s[Len(s)]) THEN TrimEnd(SubSeq(s, 1, Len(s) - 1)) ELSE s
Trim(s) == TrimEnd(TrimStart(s))

\* A byte that continues a multi-byte UTF-8 character: str::is_char_boundary
\* is false at its index.
IsContinuation(b) == b \in {"0xA9"}

\* String::from_utf8_lossy: every byte that is no part of a well-formed
\* UTF-8 character becomes U+FFFD; well-formed text is left as it is.
IllFormedAt(b, i) ==
    \/ b[i] = "0xFF"
    \/ b[i] = "0xC3" /\ ~(i < Len(b) /\ b[i + 1] = "0xA9")
    \/ b[i] = "0xA9" /\ ~(i > 1 /\ b[i - 1] = "0xC3")
from_utf8_lossy(b) == [i \in 1..Len(b) |-> IF IllFormedAt(b, i) THEN "U+FFFD" ELSE b[i]]

(***************************************************************************)
(* Bounds of the model                                                     *)
(***************************************************************************)

\* Would-block answers the host gives in the course of one call of a TCP
\* function, to its DNS loop and its connect loop together.
MaxWouldBlock == 2
\* Non-empty chunks delivered to one bulk read loop, and one-byte text chunks
\* delivered to one interactive read loop.
MaxChunks == 2
\* Zero bytes a peer sends to the interactive read loop, all of them within
\* its first MaxNul + 1 bytes.
MaxNul == 1

(***************************************************************************)
(* Program constants                                                       *)
(***************************************************************************)

\* for _ in 0..20: the cycle ceiling of the interactive read loop.
ReadCycles == 20
\* body.len() >= 4096: the byte ceiling of the interactive read loop.
ByteCap == 4096
\* OutgoingResponse::new: the status of a response whose status is never set.
DefaultStatus == 200
DefaultTcpSendPort == 9090
DefaultFetchPort == 80
\* api_key.len() > 10 / &api_key[..10]
KeyExcerptLen == 10

DefaultTcpSendHost == Chars("127.0.0.1")
DefaultTcpSendMsg == Chars("hello from wasi")
DefaultFetchHost == Chars("example.com")
DefaultProbeUrl == Chars("https://httpbin.org/get")
DefaultModel == Chars("gpt-4o-mini")
OpenAIUrl == Chars("https://api.openai.com/v1/chat/completions")
FallbackHost == Chars("example.com")
FallbackIp == [fam |-> "v4", addr |-> <<93, 184, 216, 34>>]

(***************************************************************************)
(* Inputs: what the caller, the environment and the host may supply        *)
(***************************************************************************)

\* Inbound path-with-query strings.
Requests == {
    Chars("/health"), Chars("/health?port=1&&=x"), Chars("/health?"),
    Chars("/healthz"),
    Chars("/slack/command"), Chars("/slack/command/x"),
    Chars("/tcp/send"), Chars("/tcp/send?host=10.0.0.5&port=7&msg=hi"),
    Chars("/tcp/send?host=example.com&port=65536"), Chars("/tcp/send?port=-1&host=echo.test"),
    Chars("/tcp/sendmore?port=7"),
    Chars("/debug/httpget"), Chars("/debug/httpget?url=not-a-url"),
    Chars("/debug/httpget?url=http://a.test"), Chars("/debug/httpgetx?url=ftp://a.test/f"),
    Chars("/debug/openai"), Chars("/debug/openai/x?y"),
    Chars("/"), Chars("/?host=127.0.0.1&port=65536"), Chars("/?host=example.com&port=abc"),
    Chars("/?port="),
    Chars("/?host=1.2.3&port=8082"), Chars("/?host=256.1.1.1&port=0"),
    Chars("/?host=+1.2.3.4&port=+81"), Chars("/?host=1.2.3.4.5&port=65535"),
    Chars("/?host=a.test&port=%38"), Chars("/?host=01.2.3.4"), Chars("/?host=1..3.4") }

\* Inbound request bodies (the form of a Slack slash command).
Bodies == {
    <<>>,
    Chars("text=hello&response_url="),
    Chars("text=hi&response_url=https://hooks.test/cb"),
    Chars("response_url=not-a-url&text=say+%22x%22") }

\* env::var: unset, or set to a value.
Unset == [set |-> FALSE, val |-> <<>>]
EnvVal(v) == [set |-> TRUE, val |-> v]
KeyValues == {
    Unset, EnvVal(<<>>), EnvVal(Chars("sk-short")), EnvVal(Chars("sk-0123456789")),
    EnvVal(Chars("sk-123456") \o <<"0xC3", "0xA9">> \o Chars("z")) }
ModelValues == { Unset, EnvVal(Chars("m1")) }

\* Addresses a resolver may produce.
ResolvedIps == { [fam |-> "v4", addr |-> <<10, 1, 1, 1>>],
                 [fam |-> "v6", addr |-> <<8193, 3512, 0, 0, 0, 0, 0, 1>>] }

\* Status codes an origin may answer with.
Statuses == {199, 200, 299, 300, 404}

\* Chunks an origin or peer may deliver to a bulk read.
ContentJson == Chars("{\"choices\":[{\"message\":{\"content\":\" hi \"}}]}")
ErrorJson == Chars("{\"error\":{\"message\":\"bad key\"}}")
Chunks == { Chars("{\"error\":\"x\"}"), ContentJson, ErrorJson, <<"0xFF">> }

\* Host error codes, as {e:?} prints them.
DnsErr == <<"NameUnresolvable">>
TcpErr == <<"ConnectionRefused">>
StreamErr == <<"LastOperationFailed">>
HttpErr == <<"ConnectionTimeout">>

(***************************************************************************)
(* State                                                                   *)
(***************************************************************************)

VARIABLES
    path_q,         \* req.path_with_query() of the inbound request
    pc,             \* the position of the handling sequence
    route,          \* the branch of handle taken ("none" before routing)
    respSet,        \* calls of ResponseOutparam::set
    respStatus,     \* status of the outbound response (0: none set yet)
    respHeaders,    \* headers of the outbound response
    bodyWrites,     \* calls of writer.blocking_write_and_flush
    bodyFinishes,   \* calls of OutgoingBody::finish on the response body
    written,        \* the bytes handed to the response body writer
    response_text,  \* handle's response_text
    host, port, msg, url,       \* the parameters of the routed operation
    inStream,       \* what is left to read of the inbound request body
    text, response_url,         \* the form fields of /slack/command
    aiResult,       \* the Result of call_openai
    reply,          \* the reply text of /slack/command
    postCalls,      \* calls of http_post_text
    api_key, model, \* the configuration as read by the routed operation
    env_key,        \* OPENAI_API_KEY as env::var gave it (Unset before it is read)
    httpFn,         \* the HTTP client function running ("none", "get", "post_json", "post_text")
    postBody,       \* the body argument of the POST function running
    contentType,    \* the content_type argument of http_post_text
    httpReq,        \* the OutgoingRequest being built
    httpLog,        \* the host calls of the running HTTP client function, in order
    status,         \* status of the response object received (0: none)
    httpResult,     \* the Result of the HTTP client function
    futAnswer,      \* what fut.get() answered, with the status the origin sent
    buf,            \* the buffer of the bulk read loop in progress
    chunksRead,     \* non-empty chunks read by the bulk read loop in progress
    bulkReads,      \* read calls of the bulk read loop in progress
    bulkEnded,      \* the bulk read loop in progress has met its end condition
    chunkLog,       \* the non-empty chunks the host has delivered to that loop, in order
    unread,         \* bytes the peer sends before it closes that had not arrived when the loop ended
    tcpFn,          \* the TCP function running ("none", "send", "get")
    ip,             \* the resolved address
    resolverStarts, \* calls of ip_name_lookup::resolve_addresses
    sockets,        \* calls of create_tcp_socket
    connectStarts,  \* calls of start_connect
    remote,         \* the IpSocketAddress handed to start_connect
    wouldBlocks,    \* would-block answers so far in the TCP function in progress
    payload,        \* the bytes handed to the TCP write
    body,           \* the Vec<u8> of the interactive read loop
    cycles,         \* iterations of the interactive read loop begun
    readWaits,      \* poll::poll calls on the read token of the interactive loop
    readCalls,      \* InputStream::read calls of the interactive loop
    readFails,      \* reads of the interactive loop that gave LastOperationFailed
    tcpResult,      \* the Result of the TCP function
    handles,        \* the host resources the TCP function holds, in order of creation
    dropLog,        \* the host resources released so far, in order of release
    tcpLog,         \* the resolver and socket calls of the TCP function with their answers
    parked,         \* the locals of the handling that is suspended at a wait (<<>>: none)
    running         \* the handling that is running, 1 or 2

respVars == <<respSet, respStatus, respHeaders, bodyWrites, bodyFinishes, written>>
argVars == <<host, port, msg, url>>
slackVars == <<inStream, text, response_url, aiResult, reply, postCalls>>
envVars == <<api_key, model, env_key>>
httpVars == <<httpFn, postBody, contentType, httpReq, httpLog, status, httpResult, futAnswer>>
bulkVars == <<buf, chunksRead, bulkReads, bulkEnded, chunkLog, unread>>
dnsVars == <<ip, resolverStarts, wouldBlocks>>
connVars == <<sockets, connectStarts, remote, payload>>
loopVars == <<body, cycles, readWaits, readCalls, readFails>>
resVars == <<handles, dropLog, tcpLog>>
tcpVars == <<tcpFn, dnsVars, connVars, loopVars, tcpResult, resVars>>

otherVars == <<parked, running>>

vars == <<path_q, pc, route, respVars, response_text, argVars, slackVars, envVars,
          httpVars, bulkVars, tcpVars, otherVars>>

Ok(v) == [ok |-> TRUE, val |-> v]
Err(v) == [ok |-> FALSE, val |-> v]
NoResult == [ok |-> FALSE, val |-> <<"(pending)">>]
NoIp == [fam |-> "none", addr |-> <<>>]
NoRemote == [fam |-> "none", address |-> <<>>, port |-> 0, flow_info |-> 0, scope_id |-> 0]
NoAnswer == [kind |-> "unasked", status |-> 0]
NoRequest == [method |-> "none", scheme |-> "none", authority |-> <<>>, path |-> <<>>,
              headers |-> <<>>, body |-> <<>>, bodyFinished |-> FALSE]

InitLocals ==
    /\ path_q \in Requests
    /\ pc = "start"
    /\ route = "none"
    /\ respSet = 0 /\ respStatus = 0 /\ respHeaders = <<>>
    /\ bodyWrites = 0 /\ bodyFinishes = 0 /\ written = <<>>
    /\ response_text = <<>>
    /\ host = <<>> /\ port = 0 /\ msg = <<>> /\ url = <<>>
    /\ inStream = <<>> /\ text = <<>> /\ response_url = <<>>
    /\ aiResult = NoResult /\ reply = <<>> /\ postCalls = 0
    /\ api_key = <<>> /\ model = <<>> /\ env_key = Unset
    /\ httpFn = "none" /\ postBody = <<>> /\ contentType = <<>> /\ httpReq = NoRequest /\ httpLog = <<>> /\ status = 0
    /\ httpResult = NoResult /\ futAnswer = NoAnswer
    /\ buf = <<>> /\ chunksRead = 0 /\ bulkReads = 0 /\ bulkEnded = FALSE /\ chunkLog = <<>>
    /\ unread = <<>>
    /\ tcpFn = "none" /\ ip = NoIp /\ resolverStarts = 0 /\ wouldBlocks = 0
    /\ sockets = 0 /\ connectStarts = 0 /\ remote = NoRemote /\ payload = <<>>
    /\ body = <<>> /\ cycles = 0 /\ readWaits = 0 /\ readCalls = 0 /\ readFails = 0
    /\ tcpResult = NoResult
    /\ handles = <<>> /\ dropLog = <<>> /\ tcpLog = <<>>

\* One request in flight: no handling is suspended.
Init == InitLocals /\ parked = <<>> /\ running = 1

(***************************************************************************)
(* Request router: handle                                                  *)
(***************************************************************************)

\* The if / else-if chain of handle over the path.
RouteAllPrefix(path) ==
    IF StartsWith(path, Chars("/health")) THEN "health"
    ELSE IF StartsWith(path, Chars("/slack/command")) THEN "slack"
    ELSE IF StartsWith(path, Chars("/tcp/send")) THEN "tcp_send"
    ELSE IF StartsWith(path, Chars("/debug/httpget")) THEN "httpget"
    ELSE IF StartsWith(path, Chars("/debug/openai")) THEN "openai"
    ELSE "default"
Route(path) ==
    IF path = Chars("/health") THEN "health"
    ELSE IF path = Chars("/slack/command") THEN "slack"
    ELSE IF path = Chars("/tcp/send") THEN "tcp_send"
    ELSE IF StartsWith(path, Chars("/debug/httpget")) THEN "httpget"
    ELSE IF StartsWith(path, Chars("/debug/openai")) THEN "openai"
    ELSE "default"

\* if let Some(qs) = query { parse_query_params(qs) }: no query, no parameters.
QueryParams(query) == IF query.some THEN parse_query_params(query.text) ELSE EmptyMap

\* if let Some(v) = params.get(key) { var = v }
ParamOr(params, key, default) ==
    IF Chars(key) \in DOMAIN params THEN params[Chars(key)] ELSE default

\* if let Some(p) = params.get("port") { if let Ok(v) = p.parse::<u16>() { port = v } }
PortOrWrapped(params, default) ==
    IF Chars("port") \in DOMAIN params /\ AccDigits(params[Chars("port")], 0, 99999999) >= 0
    THEN AccDigits(params[Chars("port")], 0, 99999999) % (U16Max + 1)
    ELSE default
PortOr(params, default) ==
    IF Chars("port") \in DOMAIN params /\ ParseU16(params[Chars("port")]) >= 0
    THEN ParseU16(params[Chars("port")])
    ELSE default

\* Lines 38-54 and the parameter parsing of the branch taken: the response
\* is set (headers content-type: text/plain, status never changed), the body
\* writer taken, the path split and the branch chosen.
HandleStart ==
    /\ pc = "start"
    /\ LET pq == split_path_and_query(path_q)
           r == Route(pq.path)
           params == QueryParams(pq.query)
       IN  /\ route' = r
           /\ respSet' = respSet + 1
           /\ respStatus' = DefaultStatus
           /\ respHeaders' = <<[name |-> "content-type", value |-> Chars("text/plain")]>>
           /\ host' = CASE r = "tcp_send" -> ParamOr(params, "host", DefaultTcpSendHost)
                        [] r = "default" -> ParamOr(params, "host", DefaultFetchHost)
                        [] OTHER -> host
           /\ port' = CASE r = "tcp_send" -> PortOr(params, DefaultTcpSendPort)
                        [] r = "default" -> PortOr(params, DefaultFetchPort)
                        [] OTHER -> port
           /\ msg' = IF r = "tcp_send" THEN ParamOr(params, "msg", DefaultTcpSendMsg) ELSE msg
           /\ url' = IF r = "httpget" THEN ParamOr(params, "url", DefaultProbeUrl) ELSE url
           /\ response_text' = IF r = "health" THEN Chars("ok") ELSE response_text
           /\ tcpFn' = CASE r = "tcp_send" -> "send" [] r = "default" -> "get" [] OTHER -> tcpFn
           /\ httpFn' = IF r = "httpget" THEN "get" ELSE httpFn
           /\ inStream' \in IF r = "slack" THEN Bodies ELSE {<<>>}
           /\ pc' = CASE r = "health" -> "respond"
                      [] r = "slack" -> "read_body"
                      [] r = "tcp_send" -> "tcp_resolve"
                      [] r = "httpget" -> "http_parse"
                      [] r = "openai" -> "debug_env"
                      [] OTHER -> "tcp_resolve"
    /\ UNCHANGED <<otherVars, path_q, bodyWrites, bodyFinishes, written, text, response_url,
                   aiResult, reply, postCalls, envVars, postBody, contentType,
                   httpReq, httpLog, status, httpResult, futAnswer, bulkVars, dnsVars,
                   connVars, loopVars, tcpResult, resVars>>

\* Lines 154-156: the one write of response_text, the writer dropped, the
\* body finished.
Respond ==
    /\ pc = "respond"
    /\ bodyWrites' = bodyWrites + 1
    /\ written' = written \o response_text
    /\ bodyFinishes' = bodyFinishes + 1
    /\ pc' = "done"
    /\ UNCHANGED <<otherVars, path_q, route, respSet, respStatus, respHeaders, response_text, argVars,
                   slackVars, envVars, httpVars, bulkVars, tcpVars>>

(***************************************************************************)
(* Bulk read loop (read_request_body, tcp_get_host_port, http_get_text,    *)
(* http_post_json): loop { match read(32 KiB) { empty => break,            *)
(* chunk => append, Err => break } }                                       *)
(***************************************************************************)

\* What one InputStream::read may answer.
ReadOutcomes == {"chunk", "empty", "closed", "failed"}

\* One iteration on answer o (chunk c when o = "chunk"): the buffer after it.
BulkAppend(o, c) == IF o = "chunk" THEN buf \o c ELSE buf

\* One iteration on answer o: whether the loop breaks.
BulkBreaks(o) == o # "chunk"

\* InputStream::read does not block: Ok with an empty list says that no
\* byte is available at this moment, not that the peer has finished (that
\* is Err(Closed)).  After an empty answer the peer may close at once or
\* send more (c) first; after Closed everything it sent has been read.
StillToCome(o, c) == IF o = "empty" THEN {<<>>, c} ELSE {<<>>}

BulkStep(o, c) ==
    /\ ~bulkEnded
    /\ buf' = BulkAppend(o, c)
    /\ chunksRead' = IF o = "chunk" THEN chunksRead + 1 ELSE chunksRead
    /\ bulkReads' = bulkReads + 1
    /\ bulkEnded' = BulkBreaks(o)
    /\ chunkLog' = IF o = "chunk" THEN Append(chunkLog, c) ELSE chunkLog
    /\ unread' \in StillToCome(o, c)

BulkReset ==
    /\ buf' = <<>> /\ chunksRead' = 0 /\ bulkReads' = 0 /\ bulkEnded' = FALSE
    /\ chunkLog' = <<>> /\ unread' = <<>>

(***************************************************************************)
(* /slack/command                                                          *)
(***************************************************************************)

\* The lengths of the chunk a read of the inbound body may return.
CutPoints(s) == {Len(s), (Len(s) + 1) \div 2} \ {0}

\* read_request_body, one read of its loop; on the break the body text is
\* parsed as a form and the fields text and response_url are taken.
ReadRequestBody ==
    /\ pc = "read_body"
    /\ \E o \in ReadOutcomes : \E k \in CutPoints(inStream) \cup {0} :
        /\ (o = "chunk") = (k > 0)
        /\ o = "chunk" => chunksRead < MaxChunks
        /\ BulkStep(o, SubSeq(inStream, 1, k))
        /\ inStream' = Drop(inStream, k)
        /\ IF BulkBreaks(o)
           THEN LET form == parse_query_params(from_utf8_lossy(buf'))
                IN  /\ text' = GetOrEmpty(form, Chars("text"))
                    /\ response_url' = GetOrEmpty(form, Chars("response_url"))
                    /\ pc' = "call_openai"
           ELSE UNCHANGED <<text, response_url, pc>>
    /\ UNCHANGED <<otherVars, path_q, route, respVars, response_text, argVars, aiResult, reply,
                   postCalls, envVars, httpVars, tcpVars>>

\* get_env_var: env::var(name).ok().filter(|s| !s.is_empty())
get_env_var(v) == IF v.set /\ v.val # <<>> THEN v ELSE Unset

UnwrapOrMissing(opt, default) == IF opt.set THEN opt.val ELSE Chars("MISSING")
UnwrapOr(opt, default) == IF opt.set THEN opt.val ELSE default

\* The payload of call_openai (line 522).
ChatPayload(m, user_text) ==
    Chars("{\"model\":\"") \o m \o Chars("\",\"messages\":[{\"role\":\"user\",\"content\":\"")
    \o EscapeQuotes(user_text) \o Chars("\"}],\"max_tokens\":150,\"temperature\":0.7}")

\* The payload of the /debug/openai probe (line 110).
ProbePayload(m) ==
    Chars("{\"model\":\"") \o m
    \o Chars("\",\"messages\":[{\"role\":\"user\",\"content\":\"Hello\"}],\"max_tokens\":10}")

\* call_openai up to the dispatch of its POST: the configuration is read and
\* an unset or empty key fails without any request.
CallOpenAI ==
    /\ pc = "call_openai"
    /\ \E k \in KeyValues, m \in ModelValues :
        /\ env_key' = k
        /\ api_key' = UnwrapOr(get_env_var(k), <<>>)
        /\ model' = UnwrapOr(get_env_var(m), DefaultModel)
        /\ IF api_key' = <<>>
           THEN /\ aiResult' = Err(Chars("OPENAI_API_KEY not set"))
                /\ pc' = "slack_reply"
                /\ UNCHANGED <<httpFn, postBody, url>>
           ELSE /\ httpFn' = "post_json"
                /\ postBody' = ChatPayload(model', text)
                /\ url' = OpenAIUrl
                /\ pc' = "http_parse"
                /\ UNCHANGED aiResult
    /\ UNCHANGED <<otherVars, path_q, route, respVars, response_text, host, port, msg, inStream, text,
                   response_url, reply, postCalls, contentType, httpReq, httpLog, status,
                   httpResult, futAnswer, bulkVars, tcpVars>>

\* serde_json::from_str and the lookups of lines 527-538, on the bodies the
\* origin may send.
ParseOpenAI(b) ==
    IF b = ContentJson THEN Ok(Trim(Chars(" hi ")))
    ELSE IF b = ErrorJson THEN Err(Chars("OpenAI error: ") \o Chars("bad key"))
    ELSE IF b \in Chunks THEN Err(Chars("Unexpected OpenAI response format"))
    ELSE Err(Chars("Failed to parse OpenAI response: ") \o <<"(serde_json error)">>)

\* call_openai after its POST returned: `?` on the error, else the parse.
OpenAIReturn ==
    /\ pc = "http_ret" /\ route = "slack" /\ httpFn = "post_json"
    /\ aiResult' = IF httpResult.ok THEN ParseOpenAI(httpResult.val) ELSE httpResult
    /\ pc' = "slack_reply"
    /\ UNCHANGED <<otherVars, path_q, route, respVars, response_text, argVars, inStream, text,
                   response_url, reply, postCalls, envVars, httpVars, bulkVars, tcpVars>>

\* serde_json's string escaping of the reply text.
RECURSIVE JsonEscape(_)
JsonEscape(s) ==
    IF Len(s) = 0 THEN <<>>
    ELSE IF Len(s) = 1
         THEN CASE s[1] = "\"" -> <<"\\", "\"">>
                [] s[1] = "\\" -> <<"\\", "\\">>
                [] s[1] = "LF" -> <<"\\", "n">>
                [] s[1] = "CR" -> <<"\\", "r">>
                [] OTHER -> s
    ELSE LET h == Len(s) \div 2
         IN  JsonEscape(SubSeq(s, 1, h)) \o JsonEscape(SubSeq(s, h + 1, Len(s)))

\* json!({"response_type":"in_channel","text": reply}).to_string()
SlackJson(r) ==
    Chars("{\"response_type\":\"in_channel\",\"text\":\"") \o JsonEscape(r) \o Chars("\"}")

\* The reply of lines 66-69.
ReplyOf(res, t) ==
    IF res.ok THEN res.val
    ELSE Chars("You said: ") \o t \o Chars(" (AI unavailable: ") \o res.val \o Chars(")")

\* if !response_url.is_empty()
WantsCallbackAlways(ru) == TRUE
WantsCallback(ru) == ru # <<>>

\* Lines 66-76 after call_openai: the reply is built, and the callback POST
\* is called when response_url is not empty; else the answer is "ack".
SlackReply ==
    /\ pc = "slack_reply"
    /\ reply' = ReplyOf(aiResult, text)
    /\ IF WantsCallback(response_url)
       THEN /\ postCalls' = postCalls + 1
            /\ httpFn' = "post_text"
            /\ url' = response_url
            /\ postBody' = SlackJson(reply')
            /\ contentType' = Chars("application/json")
            /\ pc' = "http_parse"
            /\ UNCHANGED response_text
       ELSE /\ response_text' = Chars("ack")
            /\ pc' = "respond"
            /\ UNCHANGED <<postCalls, httpFn, url, postBody, contentType>>
    /\ UNCHANGED <<otherVars, path_q, route, respVars, host, port, msg, inStream, text, response_url,
                   aiResult, envVars, httpReq, httpLog, status, httpResult, futAnswer,
                   bulkVars, tcpVars>>

\* Lines 74-76: the result of the callback POST is dropped; the answer is "ack".
SlackAckTextOnOk(res) == IF res.ok THEN Chars("ack") ELSE Chars("callback failed: ") \o res.val
SlackAckText(res) == Chars("ack")

SlackAck ==
    /\ pc = "http_ret" /\ route = "slack" /\ httpFn = "post_text"
    /\ response_text' = SlackAckText(httpResult)
    /\ pc' = "respond"
    /\ UNCHANGED <<otherVars, path_q, route, respVars, argVars, slackVars, envVars, httpVars, bulkVars,
                   tcpVars>>

(***************************************************************************)
(* HTTP client: http_get_text, http_post_json, http_post_text              *)
(***************************************************************************)

\* The URL parse shared by the three functions: strip_prefix("https://"),
\* else strip_prefix("http://"), else unsupported; splitn(2, '/') of the
\* rest gives the authority and the path ("/" + what follows the first '/').
ParseUrlAnyScheme(u) ==
    LET i == FindChar(u, ":")
        rest == IF i > 0 /\ StartsWith(Drop(u, i), Chars("//")) THEN Drop(u, i + 2) ELSE u
        parts == SplitN2(rest, "/")
    IN  [ok |-> TRUE, scheme |-> "https", authority |-> parts[1],
         path |-> <<"/">> \o (IF Len(parts) = 2 THEN parts[2] ELSE <<>>)]
ParseUrl(u) ==
    LET https == StartsWith(u, Chars("https://"))
        http == StartsWith(u, Chars("http://"))
        rest == IF https THEN Drop(u, 8) ELSE IF http THEN Drop(u, 7) ELSE <<>>
        parts == SplitN2(rest, "/")
    IN  IF ~https /\ ~http
        THEN [ok |-> FALSE, scheme |-> "none", authority |-> <<>>, path |-> <<>>]
        ELSE [ok |-> TRUE, scheme |-> IF https THEN "https" ELSE "http",
              authority |-> parts[1],
              path |-> <<"/">> \o (IF Len(parts) = 2 THEN parts[2] ELSE <<>>)]

Header(n, v) == [name |-> n, value |-> v]

\* The headers each function appends, in order.
HeadersOf(fn) ==
    CASE fn = "post_json" ->
            << Header("content-type", Chars("application/json")),
               Header("authorization", Chars("Bearer ") \o api_key),
               Header("content-length", ToDec(ByteLen(postBody))) >>
      [] fn = "post_text" ->
            << Header("content-type", contentType),
               Header("content-length", ToDec(ByteLen(postBody))) >>
      [] OTHER -> <<>>

\* The host calls made while the request is built, in order: for a POST the
\* body is written in one write-and-flush, the writer dropped and the
\* outgoing body finished.  req.body() and ob.write() are the first calls on
\* a request and a body just created, which the host answers with Ok; the
\* results of the write and of the finish are ignored (let _ =).
BuildLogUnfinished(fn) ==
    IF fn = "get" THEN <<"new_request">>
    ELSE <<"new_request", "body_write", "writer_drop">>
BuildLog(fn) ==
    IF fn = "get" THEN <<"new_request">>
    ELSE <<"new_request", "body_write", "writer_drop", "body_finish">>

\* From entry to the call of outgoing_handler::handle: the URL is parsed
\* (an unsupported scheme returns at once) and the request is built.
HttpParse ==
    /\ pc = "http_parse"
    /\ LET u == ParseUrl(url)
       IN  IF ~u.ok
           THEN /\ httpResult' = Err(Chars("unsupported scheme"))
                /\ httpReq' = NoRequest
                /\ httpLog' = <<>>
                /\ pc' = "http_ret"
           ELSE /\ httpReq' = [method |-> IF httpFn = "get" THEN "GET" ELSE "POST",
                               scheme |-> u.scheme, authority |-> u.authority,
                               path |-> u.path, headers |-> HeadersOf(httpFn),
                               body |-> IF httpFn = "get" THEN <<>> ELSE postBody,
                               bodyFinished |-> "body_finish" \in
                                    {BuildLog(httpFn)[i] : i \in 1..Len(BuildLog(httpFn))}]
                /\ httpLog' = BuildLog(httpFn)
                /\ httpResult' = NoResult
                /\ pc' = "http_dispatch"
    /\ status' = 0
    /\ futAnswer' = NoAnswer
    /\ UNCHANGED <<otherVars, path_q, route, respVars, response_text, argVars, slackVars, envVars,
                   httpFn, postBody, contentType, bulkVars, tcpVars>>

\* outgoing_handler::handle(req, Some(opts)): a future, or an error.
HttpDispatch ==
    /\ pc = "http_dispatch"
    /\ httpLog' = Append(httpLog, "handle")
    /\ \E accepted \in BOOLEAN :
        IF accepted
        THEN pc' = "http_wait" /\ UNCHANGED httpResult
        ELSE /\ httpResult' = Err(Chars("http handle: ") \o HttpErr)
             /\ pc' = "http_ret"
    /\ UNCHANGED <<otherVars, path_q, route, respVars, response_text, argVars, slackVars, envVars,
                   httpFn, postBody, contentType, httpReq, status, futAnswer, bulkVars,
                   tcpVars>>

\* What fut.get() may answer after the wait: nothing yet, Some(Err(())),
\* Some(Ok(Err(code))), Some(Ok(Ok(response))).
FutureAnswers == {"none", "taken", "resp_err", "response"}

\* What consume() and stream() of the response may answer.
BodyAnswers == {"stream", "consume_failed", "stream_failed"}

\* The result of each function for an answer that ends it at once;
\* NoResult when the function goes on to drain the body.
WaitResult(fn, a, bodyAns) ==
    IF fn = "post_text"
    THEN CASE a = "none" -> Err(Chars("await resp: none"))
           [] a = "taken" -> Err(Chars("await resp: ()"))
           [] OTHER -> Ok(<<>>)
    ELSE CASE a = "none" -> Err(Chars("http response timeout"))
           [] a = "taken" -> Err(Chars("http response error: ()"))
           [] a = "resp_err" -> Err(Chars("response error: ") \o HttpErr)
           [] bodyAns = "stream" -> NoResult
           [] fn = "post_json" -> Err(Chars("failed to read response body"))
           [] bodyAns = "consume_failed" -> Err(Chars("consume body failed"))
           [] OTHER -> Err(Chars("no body stream"))

\* The calls between the dispatch and the match on the answer: one wait on
\* the future's pollable, one fut.get().
WaitCallsTwice == <<"poll_future", "future_get", "poll_future", "future_get">>
WaitCalls == <<"poll_future", "future_get">>

\* The single wait on the future's pollable, then fut.get().
HttpWait ==
    /\ pc = "http_wait"
    /\ httpLog' = httpLog \o WaitCalls
    /\ \E a \in FutureAnswers, st \in Statuses, bodyAns \in BodyAnswers :
        /\ a # "response" => (st = 200 /\ bodyAns = "stream")
        /\ (httpFn = "post_text" /\ a = "response") => bodyAns = "stream"
        /\ futAnswer' = [kind |-> a, status |-> IF a = "response" THEN st ELSE 0]
        /\ status' = IF a = "response" /\ httpFn # "post_text" THEN st ELSE status
        /\ LET r == WaitResult(httpFn, a, bodyAns)
           IN  IF r = NoResult
               THEN pc' = "http_read" /\ BulkReset /\ UNCHANGED httpResult
               ELSE pc' = "http_ret" /\ httpResult' = r /\ UNCHANGED bulkVars
    /\ UNCHANGED <<otherVars, path_q, route, respVars, response_text, argVars, slackVars, envVars,
                   httpFn, postBody, contentType, httpReq, tcpVars>>

\* if status >= 200 && status < 300 { Ok(body) } else { Err("... {status}: {body}") }
StatusPrefix(fn) == IF fn = "post_json" THEN Chars("OpenAI HTTP ") ELSE Chars("HTTP ")
ClassifyOffByOne(fn, st, b) ==
    IF st >= 200 /\ st <= 300 THEN Ok(b)
    ELSE Err(StatusPrefix(fn) \o ToDec(st) \o Chars(": ") \o b)
Classify(fn, st, b) ==
    IF st >= 200 /\ st < 300 THEN Ok(b)
    ELSE Err(StatusPrefix(fn) \o ToDec(st) \o Chars(": ") \o b)

\* One iteration of the body drain (http_post_json waits on the stream's
\* pollable before each read); on the break the stream is dropped, the
\* incoming body finished and the result classified by status.
HttpRead ==
    /\ pc = "http_read"
    /\ \E o \in ReadOutcomes, c \in Chunks :
        /\ o = "chunk" => chunksRead < MaxChunks
        /\ o # "chunk" => c = ContentJson
        /\ BulkStep(o, c)
        /\ httpLog' = httpLog \o (IF httpFn = "post_json" THEN <<"poll_stream">> ELSE <<>>)
                              \o <<"read">>
                              \o (IF BulkBreaks(o) THEN <<"stream_drop", "incoming_finish">>
                                  ELSE <<>>)
        /\ IF BulkBreaks(o)
           THEN /\ httpResult' = Classify(httpFn, status, from_utf8_lossy(buf'))
                /\ pc' = "http_ret"
           ELSE UNCHANGED <<httpResult, pc>>
    /\ UNCHANGED <<otherVars, path_q, route, respVars, response_text, argVars, slackVars, envVars,
                   httpFn, postBody, contentType, httpReq, status, futAnswer, tcpVars>>

(***************************************************************************)
(* /debug/httpget and /debug/openai                                        *)
(***************************************************************************)

\* Lines 101-104.
HttpGetText(u, res) ==
    IF res.ok THEN Chars("GET ") \o u \o <<"LF", "LF">> \o res.val
    ELSE Chars("GET ") \o u \o Chars(" failed: ") \o res.val

HttpGetReturn ==
    /\ pc = "http_ret" /\ route = "httpget"
    /\ response_text' = HttpGetText(url, httpResult)
    /\ pc' = "respond"
    /\ UNCHANGED <<otherVars, path_q, route, respVars, argVars, slackVars, envVars, httpVars, bulkVars,
                   tcpVars>>

\* Lines 106-112: the configuration is read and the probe POST called.
DebugOpenAIStart ==
    /\ pc = "debug_env"
    /\ \E k \in KeyValues, m \in ModelValues :
        /\ env_key' = k
        /\ api_key' = UnwrapOr(get_env_var(k), Chars("MISSING"))
        /\ model' = UnwrapOr(get_env_var(m), DefaultModel)
        /\ postBody' = ProbePayload(model')
    /\ httpFn' = "post_json"
    /\ url' = OpenAIUrl
    /\ pc' = "http_parse"
    /\ UNCHANGED <<otherVars, path_q, route, respVars, response_text, host, port, msg, slackVars,
                   contentType, httpReq, httpLog, status, httpResult, futAnswer, bulkVars,
                   tcpVars>>

\* if api_key.len() > 10 { &api_key[..10] } else { &api_key }: the slice
\* panics when byte 10 is not a character boundary.
ExcerptPanics(k) == Len(k) > KeyExcerptLen /\ IsContinuation(k[KeyExcerptLen + 1])
Excerpt(k) == IF Len(k) > KeyExcerptLen THEN SubSeq(k, 1, KeyExcerptLen) ELSE k

\* Lines 113-124.
DebugOpenAIText(res) ==
    (IF res.ok THEN Chars("OpenAI API Test Success:") ELSE Chars("OpenAI API Test Failed:"))
    \o <<"LF">> \o Chars("Model: ") \o model \o <<"LF">>
    \o Chars("API Key: ") \o Excerpt(api_key) \o Chars("...") \o <<"LF">>
    \o (IF res.ok THEN Chars("Response: ") ELSE Chars("Error: ")) \o res.val

\* The probe returned: the narrative is formatted, or the slice of the key
\* panics and the handling sequence traps before its body write.
DebugOpenAIReturn ==
    /\ pc = "http_ret" /\ route = "openai"
    /\ IF ExcerptPanics(api_key)
       THEN pc' = "trapped" /\ UNCHANGED response_text
       ELSE pc' = "respond" /\ response_text' = DebugOpenAIText(httpResult)
    /\ UNCHANGED <<otherVars, path_q, route, respVars, argVars, slackVars, envVars, httpVars, bulkVars,
                   tcpVars>>

(***************************************************************************)
(* DNS resolution and TCP: try_dns_resolve, tcp_send_message,              *)
(* tcp_get_host_port                                                       *)
(***************************************************************************)

\* The error text each function gives a DNS failure e.
DnsErrorText(fn, h, e) ==
    IF fn = "send" THEN Chars("dns: ") \o e
    ELSE Chars("dns failure for host '") \o h \o Chars("': ") \o e

\* if host == "example.com" { fallback address } else { Err }
FallbackAppliesAlways(h) == TRUE
FallbackApplies(h) == h = FallbackHost

\* One host call with its answer ("-" for a call that answers nothing).
Call(c, a) == [call |-> c, answer |-> a]

\* Locals are dropped in reverse order of declaration when their scope ends.
DropOrderDeclared(hs) == hs
DropOrder(hs) == [i \in 1..Len(hs) |-> hs[Len(hs) + 1 - i]]

\* The TCP function returns holding the resources live: all are dropped.
ScopeExit(live) == handles' = <<>> /\ dropLog' = dropLog \o DropOrder(live)

\* try_dns_resolve returns holding live = <<nw, its own locals...>>: its
\* locals are dropped, the network handle of the caller stays.
ResolverExit(live) == handles' = <<Head(live)>> /\ dropLog' = dropLog \o DropOrder(Tail(live))

\* try_dns_resolve returned Err(e) with the resources live held: the
\* fallback for example.com, else the function returns its DNS error.
DnsFailed(e, live) ==
    IF FallbackApplies(host)
    THEN ip' = FallbackIp /\ pc' = "tcp_socket" /\ UNCHANGED tcpResult /\ ResolverExit(live)
    ELSE /\ tcpResult' = Err(DnsErrorText(tcpFn, host, e))
         /\ pc' = "tcp_ret"
         /\ UNCHANGED ip
         /\ ScopeExit(live)

\* match parse_ipv4(host) { Some(v4) => literal, None => try_dns_resolve }:
\* whether the resolver is used for host h.
NeedsResolver(h) == parse_ipv4(h) = <<>>

\* Entry of tcp_send_message / tcp_get_host_port: a literal address is used
\* as it is; any other host starts the resolver (resolve_addresses).
TcpResolve ==
    /\ pc = "tcp_resolve"
    /\ IF ~NeedsResolver(host)
       THEN /\ ip' = [fam |-> "v4", addr |-> parse_ipv4(host)]
            /\ pc' = "tcp_socket"
            /\ handles' = <<"nw">>
            /\ UNCHANGED <<resolverStarts, tcpResult, dropLog, tcpLog>>
       ELSE /\ resolverStarts' = resolverStarts + 1
            /\ \E started \in BOOLEAN :
                IF started
                THEN /\ pc' = "dns_next"
                     /\ handles' = <<"nw", "resolver", "rpoll">>
                     /\ tcpLog' = tcpLog \o <<Call("resolve_addresses", "ok"),
                                               Call("resolver_subscribe", "-")>>
                     /\ UNCHANGED <<ip, tcpResult, dropLog>>
                ELSE /\ tcpLog' = Append(tcpLog, Call("resolve_addresses", "error"))
                     /\ DnsFailed(Chars("resolve start: ") \o DnsErr, <<"nw">>)
    /\ wouldBlocks' = 0
    /\ UNCHANGED <<otherVars, path_q, route, respVars, response_text, argVars, slackVars, envVars,
                   httpVars, bulkVars, tcpFn, connVars, loopVars>>

\* What resolve_next_address may answer.
ResolverAnswers == {"address", "exhausted", "would_block", "error"}

\* The calls of one iteration of the loop on answer a: resolve_next_address,
\* and the wait on the resolver's pollable after a would-block answer only.
ResolveStepLogAlwaysWaits(a) == <<Call("resolve_next_address", a), Call("poll_resolver", "-")>>
ResolveStepLog(a) ==
    IF a = "would_block"
    THEN <<Call("resolve_next_address", a), Call("poll_resolver", "-")>>
    ELSE <<Call("resolve_next_address", a)>>

\* One iteration of the loop of try_dns_resolve.
DnsNext ==
    /\ pc = "dns_next"
    /\ \E a \in ResolverAnswers, found \in ResolvedIps :
        /\ a # "address" => found = CHOOSE r \in ResolvedIps : r.fam = "v4"
        /\ a = "would_block" => wouldBlocks < MaxWouldBlock
        /\ wouldBlocks' = IF a = "would_block" THEN wouldBlocks + 1 ELSE wouldBlocks
        /\ tcpLog' = tcpLog \o ResolveStepLog(a)
        /\ CASE a = "address" -> /\ ip' = found /\ pc' = "tcp_socket" /\ UNCHANGED tcpResult
                                  /\ ResolverExit(handles)
             [] a = "exhausted" -> DnsFailed(Chars("no IPs found"), handles)
             [] a = "would_block" -> UNCHANGED <<ip, pc, tcpResult, handles, dropLog>>
             [] OTHER -> DnsFailed(Chars("resolve error: ") \o DnsErr, handles)
    /\ UNCHANGED <<otherVars, path_q, route, respVars, response_text, argVars, slackVars, envVars,
                   httpVars, bulkVars, tcpFn, resolverStarts, connVars, loopVars>>

\* create_tcp_socket(family of the address).
TcpCreateSocket ==
    /\ pc = "tcp_socket"
    /\ sockets' = sockets + 1
    /\ \E created \in BOOLEAN :
        IF created
        THEN /\ pc' = "tcp_start" /\ UNCHANGED <<tcpResult, dropLog>>
             /\ handles' = Append(handles, "sock")
             /\ tcpLog' = Append(tcpLog, Call("create_tcp_socket", "ok"))
        ELSE /\ tcpResult' = Err(Chars("create socket: ") \o TcpErr) /\ pc' = "tcp_ret"
             /\ ScopeExit(handles)
             /\ tcpLog' = Append(tcpLog, Call("create_tcp_socket", "error"))
    /\ UNCHANGED <<otherVars, path_q, route, respVars, response_text, argVars, slackVars, envVars,
                   httpVars, bulkVars, tcpFn, dnsVars, connectStarts, remote, payload,
                   loopVars>>

\* The IpSocketAddress of the address variant, with the port (flow_info and
\* scope_id 0 for IPv6).
SocketAddress(a, p) ==
    [fam |-> a.fam, address |-> a.addr, port |-> p, flow_info |-> 0, scope_id |-> 0]

\* start_connect(&sock, &nw, addr), addr the address with the port.
TcpStartConnect ==
    /\ pc = "tcp_start"
    /\ connectStarts' = connectStarts + 1
    /\ remote' = SocketAddress(ip, port)
    /\ wouldBlocks' = wouldBlocks
    /\ \E started \in BOOLEAN :
        IF started
        THEN /\ pc' = "tcp_connect" /\ UNCHANGED <<tcpResult, dropLog>>
             /\ handles' = Append(handles, "cpoll")
             /\ tcpLog' = tcpLog \o <<Call("start_connect", "ok"), Call("socket_subscribe", "-")>>
        ELSE /\ tcpResult' = Err(Chars("start_connect: ") \o TcpErr) /\ pc' = "tcp_ret"
             /\ ScopeExit(handles)
             /\ tcpLog' = Append(tcpLog, Call("start_connect", "error"))
    /\ UNCHANGED <<otherVars, path_q, route, respVars, response_text, argVars, slackVars, envVars,
                   httpVars, bulkVars, tcpFn, ip, resolverStarts, sockets, payload,
                   loopVars>>

\* What finish_connect may answer.
ConnectAnswers == {"pair", "would_block", "error"}

\* The calls of one iteration of the connect loop on answer a:
\* finish_connect, and the wait on the socket's pollable after would-block.
ConnectStepLogNoWait(a) == <<Call("finish_connect", a)>>
ConnectStepLog(a) ==
    IF a = "would_block"
    THEN <<Call("finish_connect", a), Call("poll_connect", "-")>>
    ELSE <<Call("finish_connect", a)>>

\* One iteration of the connect loop.
TcpFinishConnect ==
    /\ pc = "tcp_connect"
    /\ \E a \in ConnectAnswers :
        /\ a = "would_block" => wouldBlocks < MaxWouldBlock
        /\ wouldBlocks' = IF a = "would_block" THEN wouldBlocks + 1 ELSE wouldBlocks
        /\ tcpLog' = tcpLog \o ConnectStepLog(a)
        /\ CASE a = "pair" -> /\ pc' = "tcp_write" /\ UNCHANGED <<tcpResult, dropLog>>
                               /\ handles' = handles \o <<"input", "output">>
             [] a = "would_block" -> UNCHANGED <<pc, tcpResult, handles, dropLog>>
             [] OTHER ->
                  /\ tcpResult' = Err(Chars("finish_connect: ") \o TcpErr)
                  /\ pc' = "tcp_ret"
                  /\ ScopeExit(handles)
    /\ UNCHANGED <<otherVars, path_q, route, respVars, response_text, argVars, slackVars, envVars,
                   httpVars, bulkVars, tcpFn, ip, resolverStarts, connVars, loopVars>>

\* The bytes each function writes: the message with a line terminator
\* appended if absent, or the HTTP/1.1 request of the raw GET.
PayloadOf(fn, h, m) ==
    IF fn = "send"
    THEN IF m # <<>> /\ m[Len(m)] = "LF" THEN m ELSE m \o <<"LF">>
    ELSE Chars("GET / HTTP/1.1") \o <<"CR", "LF">> \o Chars("Host: ") \o h \o <<"CR", "LF">>
         \o Chars("Connection: close") \o <<"CR", "LF", "CR", "LF">>

\* output.blocking_write_and_flush(payload).
TcpWrite ==
    /\ pc = "tcp_write"
    /\ payload' = PayloadOf(tcpFn, host, msg)
    /\ \E accepted \in BOOLEAN :
        IF accepted
        THEN /\ pc' = (IF tcpFn = "send" THEN "tcp_read_i" ELSE "tcp_read_b")
             /\ UNCHANGED <<tcpResult, dropLog>>
             /\ handles' = IF tcpFn = "send" THEN Append(handles, "ipoll") ELSE handles
             /\ tcpLog' = tcpLog \o <<Call("blocking_write_and_flush", "ok")>>
                                  \o (IF tcpFn = "send" THEN <<Call("input_subscribe", "-")>>
                                      ELSE <<>>)
        ELSE /\ tcpResult' = Err(Chars("write: ") \o StreamErr) /\ pc' = "tcp_ret"
             /\ ScopeExit(handles)
             /\ tcpLog' = Append(tcpLog, Call("blocking_write_and_flush", "error"))
    /\ BulkReset
    /\ UNCHANGED <<otherVars, path_q, route, respVars, response_text, argVars, slackVars, envVars,
                   httpVars, tcpFn, dnsVars, sockets, connectStarts, remote, loopVars>>

\* Chunks a peer may deliver to the interactive read (at most 4096 bytes).
InteractiveChunks == { <<"x">>, <<"NUL">>, <<"BLOCK4096">> }

NulCount(s) == Cardinality({i \in 1..Len(s) : s[i] = "NUL"})

\* str::trim_end_matches('\0')
RECURSIVE TrimNul(_)
TrimNul(s) ==
    IF s # <<>> /\ s[Len(s)] = "NUL" THEN TrimNul(SubSeq(s, 1, Len(s) - 1)) ELSE s

\* Whether an iteration of the interactive loop breaks on answer o with the
\* body b accumulated after it: empty read, closed stream, byte cap.
InteractiveBreaksOnFailure(o, b) ==
    o \in {"empty", "closed", "failed"} \/ (o = "chunk" /\ ByteLen(b) >= ByteCap)
InteractiveBreaks(o, b) ==
    o \in {"empty", "closed"} \/ (o = "chunk" /\ ByteLen(b) >= ByteCap)

\* for _ in 0..20: whether the loop goes on after n iterations.
LoopGoesOnForever(n) == TRUE
LoopGoesOn(n) == n < ReadCycles

\* One iteration of the interactive read loop of tcp_send_message: wait on
\* the read token, read up to 4096 bytes; after a break or the last
\* iteration the function returns the body with trailing zero bytes trimmed.
TcpReadInteractive ==
    /\ pc = "tcp_read_i"
    /\ cycles' = cycles + 1
    /\ readWaits' = readWaits + 1
    /\ readCalls' = readCalls + 1
    /\ \E o \in ReadOutcomes, c \in InteractiveChunks :
        /\ o # "chunk" => c = <<"x">>
        /\ (o = "chunk" /\ c = <<"NUL">>) => (NulCount(body) < MaxNul /\ Len(body) <= MaxNul)
        /\ (o = "chunk" /\ c = <<"x">>) => Len(body) - NulCount(body) < MaxChunks
        /\ body' = IF o = "chunk" THEN body \o c ELSE body
        /\ readFails' = IF o = "failed" THEN readFails + 1 ELSE readFails
        /\ IF InteractiveBreaks(o, body') \/ ~LoopGoesOn(cycles')
           THEN /\ tcpResult' = Ok(TrimNul(from_utf8_lossy(body'))) /\ pc' = "tcp_ret"
                /\ ScopeExit(handles)
           ELSE UNCHANGED <<tcpResult, pc, handles, dropLog>>
    /\ UNCHANGED <<otherVars, path_q, route, respVars, response_text, argVars, slackVars, envVars,
                   httpVars, bulkVars, tcpFn, dnsVars, connVars, tcpLog>>

\* One iteration of the bulk read loop of tcp_get_host_port; on the break
\* the function returns what was accumulated.
TcpReadBulk ==
    /\ pc = "tcp_read_b"
    /\ \E o \in ReadOutcomes, c \in Chunks :
        /\ o = "chunk" => chunksRead < MaxChunks
        /\ o # "chunk" => c = ContentJson
        /\ BulkStep(o, c)
        /\ IF BulkBreaks(o)
           THEN /\ tcpResult' = Ok(from_utf8_lossy(buf')) /\ pc' = "tcp_ret"
                /\ ScopeExit(handles)
           ELSE UNCHANGED <<tcpResult, pc, handles, dropLog>>
    /\ UNCHANGED <<otherVars, path_q, route, respVars, response_text, argVars, slackVars, envVars,
                   httpVars, tcpFn, dnsVars, connVars, loopVars, tcpLog>>

\* Lines 90-93.
TcpSendText(res) ==
    IF res.ok
    THEN <<"U+2705">> \o Chars(" Sent to ") \o host \o Chars(":") \o ToDec(port)
         \o <<"LF", "LF">> \o Chars("> ") \o msg \o <<"LF", "LF">> \o Chars("< ") \o res.val
         \o <<"LF">>
    ELSE <<"U+26A0", "U+FE0F">> \o Chars("  Send failed: ") \o res.val \o <<"LF">>
         \o Chars("Target: ") \o host \o Chars(":") \o ToDec(port) \o <<"LF">>

\* Lines 141-151.
TcpGetText(res) ==
    IF res.ok
    THEN <<"U+2705">> \o Chars(" TCP fetch successful!") \o <<"LF", "LF">>
         \o Chars("Target: ") \o host \o Chars(":") \o ToDec(port) \o <<"LF", "LF">>
         \o res.val \o <<"LF">>
    ELSE <<"U+26A0", "U+FE0F">> \o Chars("  TCP fetch failed: ") \o res.val \o <<"LF", "LF">>
         \o <<"U+1F527">> \o Chars(" This is expected in some environments.") \o <<"LF">>
         \o <<"U+1F4E1">> \o Chars(" Server is running.") \o <<"LF", "LF">>
         \o Chars("Try: /?host=127.0.0.1&port=8082 after starting a local server.")
         \o <<"LF">>

\* The TCP function returned: the narrative of its route is formatted.
TcpReturn ==
    /\ pc = "tcp_ret"
    /\ response_text' = IF route = "tcp_send" THEN TcpSendText(tcpResult)
                        ELSE TcpGetText(tcpResult)
    /\ pc' = "respond"
    /\ UNCHANGED <<otherVars, path_q, route, respVars, argVars, slackVars, envVars, httpVars, bulkVars,
                   tcpVars>>

(***************************************************************************)
(* Specification                                                           *)
(***************************************************************************)

Next ==
    \/ HandleStart
    \/ Respond
    \/ ReadRequestBody
    \/ CallOpenAI
    \/ OpenAIReturn
    \/ SlackReply
    \/ SlackAck
    \/ HttpParse
    \/ HttpDispatch
    \/ HttpWait
    \/ HttpRead
    \/ HttpGetReturn
    \/ DebugOpenAIStart
    \/ DebugOpenAIReturn
    \/ TcpResolve
    \/ DnsNext
    \/ TcpCreateSocket
    \/ TcpStartConnect
    \/ TcpFinishConnect
    \/ TcpWrite
    \/ TcpReadInteractive
    \/ TcpReadBulk
    \/ TcpReturn

Spec == Init /\ [][Next]_vars

(***************************************************************************)
(* The two halves of the handler, each checked on its own: the requests    *)
(* that handle routes to the socket functions (/tcp/send and the default   *)
(* branch), and those it routes to the outbound HTTP functions (the three  *)
(* exact-match branches /slack/command, /debug/httpget, /debug/openai).    *)
(* Each half takes the actions of Next its requests can reach.             *)
(***************************************************************************)

RouteOf(r) == Route(split_path_and_query(r).path)

TcpRequests == {r \in Requests : RouteOf(r) \in {"tcp_send", "default"}}
HttpRequests == {r \in Requests : RouteOf(r) \in {"slack", "httpget", "openai"}}

InitTcp == Init /\ path_q \in TcpRequests
InitHttp == Init /\ path_q \in HttpRequests

NextTcp ==
    \/ HandleStart
    \/ Respond
    \/ TcpResolve
    \/ DnsNext
    \/ TcpCreateSocket
    \/ TcpStartConnect
    \/ TcpFinishConnect
    \/ TcpWrite
    \/ TcpReadInteractive
    \/ TcpReadBulk
    \/ TcpReturn

NextHttp ==
    \/ HandleStart
    \/ Respond
    \/ ReadRequestBody
    \/ CallOpenAI
    \/ OpenAIReturn
    \/ SlackReply
    \/ SlackAck
    \/ HttpParse
    \/ HttpDispatch
    \/ HttpWait
    \/ HttpRead
    \/ HttpGetReturn
    \/ DebugOpenAIStart
    \/ DebugOpenAIReturn

SpecTcp == InitTcp /\ [][NextTcp]_vars
SpecHttp == InitHttp /\ [][NextHttp]_vars

(***************************************************************************)
(* Two inbound requests in flight.  A handling gives up the processor only *)
(* inside a call that waits (poll::poll, a blocking write) or by ending;   *)
(* the host then runs the other handling until that one waits or ends.     *)
(* Everything a handling works on is a local of handle or of a function it *)
(* calls: the source has no static and no shared buffer.                   *)
(***************************************************************************)

\* The locals of the running handling.
Locals == [
    path_q |-> path_q, pc |-> pc, route |-> route, respSet |-> respSet,
    respStatus |-> respStatus, respHeaders |-> respHeaders, bodyWrites |-> bodyWrites,
    bodyFinishes |-> bodyFinishes, written |-> written,
    response_text |-> response_text, host |-> host, port |-> port, msg |-> msg,
    url |-> url, inStream |-> inStream, text |-> text, response_url |-> response_url,
    aiResult |-> aiResult, reply |-> reply, postCalls |-> postCalls,
    api_key |-> api_key, model |-> model, env_key |-> env_key, httpFn |-> httpFn,
    postBody |-> postBody, contentType |-> contentType, httpReq |-> httpReq,
    httpLog |-> httpLog, status |-> status, httpResult |-> httpResult,
    futAnswer |-> futAnswer, buf |-> buf, chunksRead |-> chunksRead,
    bulkReads |-> bulkReads, bulkEnded |-> bulkEnded, chunkLog |-> chunkLog, unread |-> unread,
    tcpFn |-> tcpFn, ip |-> ip, resolverStarts |-> resolverStarts, sockets |-> sockets,
    connectStarts |-> connectStarts, remote |-> remote, wouldBlocks |-> wouldBlocks,
    payload |-> payload, body |-> body, cycles |-> cycles, readWaits |-> readWaits,
    readCalls |-> readCalls, readFails |-> readFails, tcpResult |-> tcpResult,
    handles |-> handles, dropLog |-> dropLog, tcpLog |-> tcpLog ]

\* The locals of a handling of request r that has not begun.
FreshLocals(r) == [
    path_q |-> r, pc |-> "start", route |-> "none", respSet |-> 0, respStatus |-> 0,
    respHeaders |-> <<>>, bodyWrites |-> 0, bodyFinishes |-> 0, written |-> <<>>,
    response_text |-> <<>>, host |-> <<>>, port |-> 0, msg |-> <<>>, url |-> <<>>,
    inStream |-> <<>>, text |-> <<>>, response_url |-> <<>>, aiResult |-> NoResult,
    reply |-> <<>>, postCalls |-> 0, api_key |-> <<>>, model |-> <<>>,
    env_key |-> Unset, httpFn |-> "none", postBody |-> <<>>, contentType |-> <<>>,
    httpReq |-> NoRequest, httpLog |-> <<>>, status |-> 0, httpResult |-> NoResult,
    futAnswer |-> NoAnswer, buf |-> <<>>, chunksRead |-> 0, bulkReads |-> 0,
    bulkEnded |-> FALSE, chunkLog |-> <<>>, unread |-> <<>>, tcpFn |-> "none", ip |-> NoIp,
    resolverStarts |-> 0, sockets |-> 0, connectStarts |-> 0, remote |-> NoRemote,
    wouldBlocks |-> 0, payload |-> <<>>, body |-> <<>>, cycles |-> 0, readWaits |-> 0,
    readCalls |-> 0, readFails |-> 0, tcpResult |-> NoResult, handles |-> <<>>,
    dropLog |-> <<>>, tcpLog |-> <<>> ]

\* The value of the local named name the handling finds when it is resumed:
\* own is the value it had when the handling was suspended, left the value
\* the other handling leaves behind.  A let binding is the handling's own.
ResumedSharedBuffer(name, own, left) == IF name \in {"buf", "body"} THEN left ELSE own
Resumed(name, own, left) == own

\* The running handling is inside a call that waits: the poll on the
\* resolver's, the socket's or the read stream's token, the blocking write
\* to the peer, the poll on the response future or on the body stream, the
\* blocking write of the response.
AtWait ==
    \/ pc \in {"dns_next", "tcp_connect", "tcp_write", "tcp_read_i", "http_wait", "respond"}
    \/ pc = "http_read" /\ httpFn = "post_json"

\* The host suspends the running handling and resumes the other one.
Switch ==
    /\ parked # <<>>
    /\ AtWait \/ pc \in {"done", "trapped"}
    /\ parked.pc \notin {"done", "trapped"}
    /\ parked' = Locals
    /\ running' = 3 - running
    /\ path_q' = Resumed("path_q", parked.path_q, path_q)
    /\ pc' = Resumed("pc", parked.pc, pc)
    /\ route' = Resumed("route", parked.route, route)
    /\ respSet' = Resumed("respSet", parked.respSet, respSet)
    /\ respStatus' = Resumed("respStatus", parked.respStatus, respStatus)
    /\ respHeaders' = Resumed("respHeaders", parked.respHeaders, respHeaders)
    /\ bodyWrites' = Resumed("bodyWrites", parked.bodyWrites, bodyWrites)
    /\ bodyFinishes' = Resumed("bodyFinishes", parked.bodyFinishes, bodyFinishes)
    /\ written' = Resumed("written", parked.written, written)
    /\ response_text' = Resumed("response_text", parked.response_text, response_text)
    /\ host' = Resumed("host", parked.host, host)
    /\ port' = Resumed("port", parked.port, port)
    /\ msg' = Resumed("msg", parked.msg, msg)
    /\ url' = Resumed("url", parked.url, url)
    /\ inStream' = Resumed("inStream", parked.inStream, inStream)
    /\ text' = Resumed("text", parked.text, text)
    /\ response_url' = Resumed("response_url", parked.response_url, response_url)
    /\ aiResult' = Resumed("aiResult", parked.aiResult, aiResult)
    /\ reply' = Resumed("reply", parked.reply, reply)
    /\ postCalls' = Resumed("postCalls", parked.postCalls, postCalls)
    /\ api_key' = Resumed("api_key", parked.api_key, api_key)
    /\ model' = Resumed("model", parked.model, model)
    /\ env_key' = Resumed("env_key", parked.env_key, env_key)
    /\ httpFn' = Resumed("httpFn", parked.httpFn, httpFn)
    /\ postBody' = Resumed("postBody", parked.postBody, postBody)
    /\ contentType' = Resumed("contentType", parked.contentType, contentType)
    /\ httpReq' = Resumed("httpReq", parked.httpReq, httpReq)
    /\ httpLog' = Resumed("httpLog", parked.httpLog, httpLog)
    /\ status' = Resumed("status", parked.status, status)
    /\ httpResult' = Resumed("httpResult", parked.httpResult, httpResult)
    /\ futAnswer' = Resumed("futAnswer", parked.futAnswer, futAnswer)
    /\ buf' = Resumed("buf", parked.buf, buf)
    /\ chunksRead' = Resumed("chunksRead", parked.chunksRead, chunksRead)
    /\ bulkReads' = Resumed("bulkReads", parked.bulkReads, bulkReads)
    /\ bulkEnded' = Resumed("bulkEnded", parked.bulkEnded, bulkEnded)
    /\ chunkLog' = Resumed("chunkLog", parked.chunkLog, chunkLog)
    /\ unread' = Resumed("unread", parked.unread, unread)
    /\ tcpFn' = Resumed("tcpFn", parked.tcpFn, tcpFn)
    /\ ip' = Resumed("ip", parked.ip, ip)
    /\ resolverStarts' = Resumed("resolverStarts", parked.resolverStarts, resolverStarts)
    /\ sockets' = Resumed("sockets", parked.sockets, sockets)
    /\ connectStarts' = Resumed("connectStarts", parked.connectStarts, connectStarts)
    /\ remote' = Resumed("remote", parked.remote, remote)
    /\ wouldBlocks' = Resumed("wouldBlocks", parked.wouldBlocks, wouldBlocks)
    /\ payload' = Resumed("payload", parked.payload, payload)
    /\ body' = Resumed("body", parked.body, body)
    /\ cycles' = Resumed("cycles", parked.cycles, cycles)
    /\ readWaits' = Resumed("readWaits", parked.readWaits, readWaits)
    /\ readCalls' = Resumed("readCalls", parked.readCalls, readCalls)
    /\ readFails' = Resumed("readFails", parked.readFails, readFails)
    /\ tcpResult' = Resumed("tcpResult", parked.tcpResult, tcpResult)
    /\ handles' = Resumed("handles", parked.handles, handles)
    /\ dropLog' = Resumed("dropLog", parked.dropLog, dropLog)
    /\ tcpLog' = Resumed("tcpLog", parked.tcpLog, tcpLog)

\* The pairs of requests taken: a raw send beside a health probe, and two
\* raw GETs to different address literals.
ConcPairs == { <<Chars("/tcp/send?host=10.0.0.5&port=7&msg=hi"), Chars("/health")>>,
               <<Chars("/?host=01.2.3.4"), Chars("/?host=127.0.0.1&port=65536")>> }

InitConc ==
    /\ InitLocals
    /\ \E p \in ConcPairs : path_q = p[1] /\ parked = FreshLocals(p[2])
    /\ running = 1

NextConc ==
    \/ HandleStart
    \/ Respond
    \/ TcpResolve
    \/ TcpCreateSocket
    \/ TcpStartConnect
    \/ TcpFinishConnect
    \/ TcpWrite
    \/ TcpReadInteractive
    \/ TcpReadBulk
    \/ TcpReturn
    \/ Switch

SpecConc == InitConc /\ [][NextConc]_vars

(***************************************************************************)
(* Properties                                                              *)
(***************************************************************************)

\* The part of a path-with-query before its first '?'.
PathPart(pq) ==
    LET marks == {k \in 1..Len(pq) : pq[k] = "?"}
    IN  IF marks = {} THEN pq
        ELSE SubSeq(pq, 1, (CHOOSE k \in marks : \A m \in marks : k <= m) - 1)

\* The handling sequence has ended: it returned, or it trapped.
Ended == pc \in {"done", "trapped"}

\* The set of elements of a sequence.
Range(s) == {s[i] : i \in 1..Len(s)}

\* How often e occurs in the sequence s.
Count(s, e) == Cardinality({i \in 1..Len(s) : s[i] = e})

TextPlain == <<[name |-> "content-type", value |-> Chars("text/plain")]>>

\* C1: on every route and for every outcome the response is set exactly once
\* with status 200 and content-type: text/plain, and once the handling has
\* ended the body has been written exactly once and finished exactly once.
C1_ResponseExactlyOnce ==
    /\ respSet <= 1 /\ bodyWrites <= 1 /\ bodyFinishes <= 1
    /\ route # "none" => (respSet = 1 /\ respStatus = 200 /\ respHeaders = TextPlain)
    /\ Ended => (respSet = 1 /\ bodyWrites = 1 /\ bodyFinishes = 1)

RunsOnly(tcp, http) ==
    /\ tcpFn = tcp
    /\ (http = "none" => httpFn = "none")
    /\ (http # "none" /\ httpFn # "none" /\ postCalls = 0) => httpFn = http

C3_HealthOk ==
    PathPart(path_q) = Chars("/health") =>
        /\ pc \in {"start", "respond", "done"}
        /\ pc = "done" => written = Chars("ok")
        /\ pc # "start" => response_text = Chars("ok")
        /\ tcpFn = "none" /\ httpFn = "none" /\ resolverStarts = 0 /\ sockets = 0

C3_Witness ==
    pc = "done" /\ path_q = Chars("/health?port=1&&=x") /\ written = Chars("ok")

\* C4: on /slack/command the response body is exactly "ack" in every
\* execution, whatever the AI call and the callback POST did.
C4_SlackAck ==
    route = "slack" =>
        /\ pc # "trapped"
        /\ pc \in {"respond", "done"} => response_text = Chars("ack")
        /\ pc = "done" => written = Chars("ack")

\* The callback POST was rejected for its scheme after the AI call failed.
C4_Witness ==
    /\ route = "slack" /\ pc = "done" /\ written = Chars("ack")
    /\ postCalls = 1 /\ httpResult = Err(Chars("unsupported scheme")) /\ ~aiResult.ok

\* C5: on /slack/command the callback POST is called exactly once when the
\* form field response_url is not empty and never when it is empty or
\* absent, and only after the AI step has produced the reply text, which is
\* what the POST carries.
C5_CallbackOnce ==
    route = "slack" =>
        /\ postCalls <= 1
        /\ (postCalls = 1) = (httpFn = "post_text")
        /\ pc \in {"respond", "done"} => postCalls = (IF response_url # <<>> THEN 1 ELSE 0)
        /\ postCalls = 1 =>
            /\ response_url # <<>> /\ url = response_url
            /\ aiResult # NoResult
            /\ reply = (IF aiResult.ok THEN aiResult.val
                        ELSE Chars("You said: ") \o text \o Chars(" (AI unavailable: ")
                             \o aiResult.val \o Chars(")"))
            /\ postBody = SlackJson(reply)
            /\ Count(httpLog, "handle") <= 1

C5_Witness ==
    /\ route = "slack" /\ pc = "done" /\ postCalls = 1 /\ aiResult.ok
    /\ Count(httpLog, "handle") = 1 /\ httpResult.ok

\* The value of the port parameter of the query, <<"absent">> when there is
\* none.
PortText ==
    LET q == split_path_and_query(path_q).query
        params == IF q.some THEN parse_query_params(q.text) ELSE EmptyMap
    IN  IF Chars("port") \in DOMAIN params THEN params[Chars("port")] ELSE <<"absent">>

\* A text that parses as a 16-bit unsigned integer: decimal digits, at least
\* one, after an optional '+', the value at most 65535.
RECURSIVE NumVal(_)
NumVal(s) == IF s = <<>> THEN 0 ELSE NumVal(SubSeq(s, 1, Len(s) - 1)) * 10 + DigitVal(s[Len(s)])
Unsigned(s) == IF s # <<>> /\ s[1] = "+" THEN Tail(s) ELSE s
IsU16Text(s) ==
    /\ Unsigned(s) # <<>>
    /\ \A i \in 1..Len(Unsigned(s)) : DigitVal(Unsigned(s)[i]) >= 0
    /\ NumVal(Unsigned(s)) <= 65535

\* C6: on the default route and on /tcp/send a port value that does not
\* parse as a 16-bit unsigned integer leaves the default (80, 9090) in
\* effect and the operation goes on with it; a value in 0..65535 is used.
C6_PortFallback ==
    route \in {"tcp_send", "default"} =>
        LET default == IF route = "tcp_send" THEN 9090 ELSE 80
            expected == IF IsU16Text(PortText) THEN NumVal(Unsigned(PortText)) ELSE default
        IN  /\ port = expected
            /\ pc # "trapped"
            /\ connectStarts > 0 => remote.port = expected

C6_Witness ==
    /\ path_q = Chars("/?host=127.0.0.1&port=65536")
    /\ connectStarts = 1 /\ remote.port = 80 /\ pc = "done"

\* A URL this client accepts.
SupportedScheme(u) == StartsWith(u, Chars("http://")) \/ StartsWith(u, Chars("https://"))

\* C7: for a URL that begins with neither http:// nor https:// the HTTP
\* client function fails with "unsupported scheme" before any request is
\* built or dispatched and before any wait; /debug/httpget?url=not-a-url
\* answers a failure narrative containing "unsupported scheme".
C7_UnsupportedScheme ==
    /\ (httpFn # "none" /\ pc # "http_parse" /\ ~SupportedScheme(url)) =>
            /\ httpResult = Err(Chars("unsupported scheme"))
            /\ httpLog = <<>>
            /\ httpReq = NoRequest
    /\ (path_q = Chars("/debug/httpget?url=not-a-url") /\ pc = "done") =>
            /\ Contains(written, Chars("unsupported scheme"))
            /\ written = Chars("GET not-a-url failed: unsupported scheme")

C7_Witness ==
    /\ path_q = Chars("/debug/httpget?url=not-a-url") /\ pc = "done"
    /\ Contains(written, Chars("unsupported scheme")) /\ httpLog = <<>>

\* The running HTTP client function has drained the body of a response.
Drained == httpLog # <<>> /\ httpLog[Len(httpLog)] = "incoming_finish"

\* The drained body as text: the bytes read, decoded as the functions decode
\* them.
BodyText == from_utf8_lossy(buf)

\* C8: in http_get_text and http_post_json a response whose body was
\* drained is classified by status alone: 200..299 is success carrying the
\* body text, any other status an error carrying the status and the body
\* text.
C8_StatusClassification ==
    (httpFn \in {"get", "post_json"} /\ pc = "http_ret" /\ Drained) =>
        IF status >= 200 /\ status <= 299
        THEN httpResult = Ok(BodyText)
        ELSE /\ ~httpResult.ok
             /\ httpResult.val = (IF httpFn = "get" THEN Chars("HTTP ") ELSE Chars("OpenAI HTTP "))
                                 \o ToDec(status) \o Chars(": ") \o BodyText
             /\ Contains(httpResult.val, ToDec(status))
             /\ Contains(httpResult.val, BodyText)

C8_Witness ==
    /\ httpFn = "get" /\ pc = "http_ret" /\ Drained /\ status = 404
    /\ buf = Chars("{\"error\":\"x\"}")
    /\ httpResult = Err(Chars("HTTP 404: {\"error\":\"x\"}"))

\* A text of one or more decimal digits whose value is at most 255.
IsOctet(s) ==
    /\ s # <<>>
    /\ \A i \in 1..Len(s) : DigitVal(s[i]) >= 0
    /\ NumVal(s) <= 255

\* A host of the form a.b.c.d, each field a decimal number 0-255.
IsDottedQuad(h) ==
    /\ Count(h, ".") = 3
    /\ \A i \in 1..4 : IsOctet(Split(h, ".")[i])

\* C9: in tcp_send_message and tcp_get_host_port a host a.b.c.d with each
\* octet a decimal number 0-255 is used directly and the resolver is never
\* started; for every other host string resolution is attempted.
C9_FastPath ==
    (tcpFn # "none" /\ pc # "tcp_resolve") =>
        IF IsDottedQuad(host)
        THEN /\ resolverStarts = 0
             /\ ip = [fam |-> "v4", addr |-> [i \in 1..4 |-> NumVal(Split(host, ".")[i])]]
        ELSE resolverStarts = 1

\* C10: the interactive read loop of tcp_send_message makes at most 20
\* poll-then-read cycles whatever the peer does, never a 21st wait or read,
\* and then returns successfully what was accumulated (trailing zero bytes
\* trimmed).
C10_ReadCeiling ==
    /\ cycles <= 20 /\ readWaits <= 20 /\ readCalls <= 20
    /\ readWaits = cycles /\ readCalls = cycles
    /\ pc = "tcp_read_i" => cycles < 20
    /\ (cycles > 0 /\ pc # "tcp_read_i") => tcpResult = Ok(TrimNul(body))
    /\ cycles > 0 => tcpFn = "send"

\* Every one of the 20 reads failed transiently; the function returned
\* successfully with nothing accumulated.
C10_Witness ==
    /\ cycles = 20 /\ readWaits = 20 /\ readCalls = 20
    /\ body = <<>> /\ tcpResult = Ok(<<>>) /\ pc = "done"

\* The in-order concatenation of the chunks cs.
RECURSIVE Flatten(_)
Flatten(cs) == IF cs = <<>> THEN <<>> ELSE Head(cs) \o Flatten(Tail(cs))

\* The bulk read loop of the running function has met its end.
HttpDrained == httpFn \in {"get", "post_json"} /\ pc = "http_ret" /\ "read" \in Range(httpLog)
TcpDrained == tcpFn = "get" /\ bulkEnded /\ pc \in {"tcp_ret", "respond", "done"}

\* C11: every bulk read loop stops at the first read that is empty, closed
\* or failed, reads no more afterwards, and the function returns exactly the
\* in-order concatenation of the non-empty chunks read before that point
\* (tcp_get_host_port as its success value, the HTTP drains inside the
\* result the status selects, read_request_body as the parsed form); a read
\* error never makes the result a failure.
C11_BulkReadExact ==
    /\ bulkReads = Len(chunkLog) + (IF bulkEnded THEN 1 ELSE 0)
    /\ bulkEnded => pc \notin {"read_body", "http_read", "tcp_read_b"}
    /\ buf = Flatten(chunkLog)
    /\ TcpDrained => tcpResult = Ok(Flatten(chunkLog))
    /\ HttpDrained =>
          httpResult = IF status >= 200 /\ status < 300 THEN Ok(Flatten(chunkLog))
                       ELSE Err(StatusPrefix(httpFn) \o ToDec(status) \o Chars(": ")
                                \o Flatten(chunkLog))
    /\ pc = "call_openai" =>
          LET form == parse_query_params(Flatten(chunkLog))
          IN  /\ text = GetOrEmpty(form, Chars("text"))
              /\ response_url = GetOrEmpty(form, Chars("response_url"))

\* The TCP function has made the call c and got the answer a.
HasCall(c, a) == \E i \in 1..Len(tcpLog) : tcpLog[i] = Call(c, a)

\* The TCP function has returned to handle.
TcpReturned == tcpFn # "none" /\ pc \in {"tcp_ret", "respond", "done"}

\* The position of e in the sequence s.
Index(s, e) == CHOOSE i \in 1..Len(s) : s[i] = e

\* The resources the calls made so far have created.
CreatedSoFar ==
    (IF tcpFn # "none" /\ pc \notin {"start", "tcp_resolve"} THEN {"nw"} ELSE {})
    \cup (IF HasCall("resolve_addresses", "ok") THEN {"resolver", "rpoll"} ELSE {})
    \cup (IF HasCall("create_tcp_socket", "ok") THEN {"sock"} ELSE {})
    \cup (IF HasCall("start_connect", "ok") THEN {"cpoll"} ELSE {})
    \cup (IF HasCall("finish_connect", "pair") THEN {"input", "output"} ELSE {})
    \cup (IF HasCall("input_subscribe", "-") THEN {"ipoll"} ELSE {})

\* C12: in tcp_send_message and tcp_get_host_port every resource created
\* (socket, connect token, read and write stream, read token; also the
\* network handle and the resolver with its token) is released exactly once,
\* none is held after the return on any exit path, and the tokens and
\* streams are released before the socket they derive from.
C12_ReleaseOnce ==
    /\ \A h \in Range(dropLog) : Count(dropLog, h) = 1
    /\ \A h \in Range(handles) : Count(handles, h) = 1 /\ h \notin Range(dropLog)
    /\ Range(handles) \cup Range(dropLog) = CreatedSoFar
    /\ TcpReturned => (handles = <<>> /\ Range(dropLog) = CreatedSoFar)
    /\ \A d \in {"cpoll", "input", "output", "ipoll"} \cap Range(dropLog) :
          "sock" \in Range(dropLog) /\ Index(dropLog, d) < Index(dropLog, "sock")
    /\ "ipoll" \in Range(dropLog) => Index(dropLog, "ipoll") < Index(dropLog, "input")
    /\ "rpoll" \in Range(dropLog) => Index(dropLog, "rpoll") < Index(dropLog, "resolver")

\* tcp_send_message ran to its normal return after a resolution: all eight
\* resources were released, the socket after everything derived from it.
C12_Witness ==
    /\ pc = "done" /\ tcpFn = "send" /\ tcpResult.ok
    /\ dropLog = <<"rpoll", "resolver", "ipoll", "output", "input", "cpoll", "sock", "nw">>

\* The degraded reply: the echo of the input text with the 'not set' reason.
EchoNotSet == Chars("You said: ") \o text \o Chars(" (AI unavailable: OPENAI_API_KEY not set)")

\* OPENAI_API_KEY has been read and is absent or the empty string.
KeyReadUnset == pc \notin {"start", "read_body", "call_openai"} /\ (~env_key.set \/ env_key.val = <<>>)

\* C13: when OPENAI_API_KEY is absent or the empty string, /slack/command
\* dispatches no POST to the AI-completion endpoint, the reply is the echo of
\* the input text with the 'not set' reason, the callback POST (made when
\* response_url is not empty) carries that reply, and the answer is "ack".
C13_KeyUnsetDegrades ==
    (route = "slack" /\ KeyReadUnset) =>
        /\ httpFn # "post_json"
        /\ httpReq # NoRequest => httpReq.authority # Chars("api.openai.com")
        /\ aiResult = Err(Chars("OPENAI_API_KEY not set"))
        /\ pc # "slack_reply" => reply = EchoNotSet
        /\ pc # "slack_reply" => postCalls = (IF response_url # <<>> THEN 1 ELSE 0)
        /\ postCalls = 1 => postBody = SlackJson(EchoNotSet)
        /\ (postCalls = 1 /\ httpReq # NoRequest) => httpReq.body = SlackJson(EchoNotSet)
        /\ pc \in {"respond", "done"} => response_text = Chars("ack")
        /\ pc = "done" => written = Chars("ack")
        /\ pc # "trapped"

\* The key is set to the empty string and the callback carrying the degraded
\* reply was dispatched and answered.
C13_Witness ==
    /\ route = "slack" /\ pc = "done" /\ env_key = EnvVal(<<>>)
    /\ postCalls = 1 /\ httpResult.ok /\ httpReq.body = SlackJson(EchoNotSet)
    /\ written = Chars("ack")

\* The excerpt field of a /debug/openai narrative t: what stands between
\* "API Key: " and the "..." that ends its line.
ExcerptField(t) ==
    LET label == Chars("API Key: ")
        at == CHOOSE i \in 1..Len(t) :
                /\ SubSeq(t, i, i + Len(label) - 1) = label
                /\ \A j \in 1..(i - 1) : SubSeq(t, j, j + Len(label) - 1) # label
        rest == Drop(t, at + Len(label) - 1)
        line == SubSeq(rest, 1, FindChar(rest, "LF") - 1)
    IN  SubSeq(line, 1, Len(line) - 3)

\* C14: for every configured API key the /debug/openai narrative, success
\* and failure alike, shows an excerpt of the key that is strictly shorter
\* than the key; the full key never stands in the excerpt field.
C14_ExcerptShorter ==
    (route = "openai" /\ pc \in {"respond", "done"} /\ env_key.set /\ env_key.val # <<>>) =>
        /\ ByteLen(ExcerptField(response_text)) < ByteLen(env_key.val)
        /\ ExcerptField(response_text) # env_key.val

\* C15: in the interactive read loop of tcp_send_message the bytes
\* accumulated never exceed the 4096-byte cap, whatever chunks of at most
\* 4096 bytes the host returns, and the loop stops as soon as the cap is
\* reached.
C15_ByteCap ==
    /\ ByteLen(body) <= ByteCap
    /\ pc = "tcp_read_i" => ByteLen(body) < ByteCap

\* An HTTP client function has been entered and its log is its own.
HttpRunning == httpFn # "none" /\ pc # "http_parse"

\* The timeout error of each function.
TimeoutError(fn) ==
    IF fn = "post_text" THEN Err(Chars("await resp: none"))
    ELSE Err(Chars("http response timeout"))

\* C16: every HTTP client dispatch waits on the future's readiness token
\* exactly once and then queries the future exactly once; when the future
\* has no answer after that wait the call returns its timeout error at
\* once: no second wait, no second dispatch, no body read.
C16_SingleWait ==
    HttpRunning =>
        /\ Count(httpLog, "handle") <= 1
        /\ Count(httpLog, "poll_future") <= 1
        /\ Count(httpLog, "future_get") <= 1
        /\ (futAnswer.kind # "unasked") = (Count(httpLog, "future_get") = 1)
        /\ Count(httpLog, "future_get") = 1 =>
              \E i \in 1..(Len(httpLog) - 2) :
                  /\ httpLog[i] = "handle"
                  /\ httpLog[i + 1] = "poll_future"
                  /\ httpLog[i + 2] = "future_get"
        /\ (pc \in {"http_read", "http_ret"} /\ httpResult.val # Chars("unsupported scheme")
              /\ Count(httpLog, "future_get") = 0) =>
              httpResult = Err(Chars("http handle: ") \o HttpErr)
        /\ futAnswer.kind = "none" =>
              /\ pc # "http_read"
              /\ httpResult = TimeoutError(httpFn)
              /\ httpLog[Len(httpLog)] = "future_get"
              /\ "read" \notin Range(httpLog)

\* http_get_text got no answer after its single wait and the request was
\* answered with the timeout narrative.
C16_Witness ==
    /\ route = "httpget" /\ pc = "done" /\ futAnswer.kind = "none"
    /\ Count(httpLog, "poll_future") = 1 /\ Count(httpLog, "future_get") = 1
    /\ Contains(written, Chars("http response timeout"))

\* C17: http_post_text handles a response as the other HTTP client calls do:
\* for a response object it drains the body and returns success only for a
\* status in 200..299, and it returns an error carrying status and body for
\* any other status and an error for a response-level error.
C17_PostTextClassifies ==
    (HttpRunning /\ httpFn = "post_text" /\ pc # "http_wait"
        /\ futAnswer.kind \in {"response", "resp_err"}) =>
        /\ futAnswer.kind = "response" => "read" \in Range(httpLog)
        /\ httpResult.ok = (futAnswer.kind = "response" /\ futAnswer.status >= 200
                              /\ futAnswer.status < 300)
        /\ (futAnswer.kind = "response" /\ ~httpResult.ok) =>
              Contains(httpResult.val, ToDec(futAnswer.status))

\* Positions of the log at which the resolver was asked, was waited on, and
\* gave an answer that ends try_dns_resolve.
AskedAt(i) == tcpLog[i].call = "resolve_next_address"
WaitedAt(i) == tcpLog[i].call = "poll_resolver"
FinalAnswers == {"address", "exhausted", "error"}
FinalAt == {i \in 1..Len(tcpLog) : AskedAt(i) /\ tcpLog[i].answer \in FinalAnswers}

\* try_dns_resolve was called and has returned.
ResolveReturned == resolverStarts = 1 /\ pc \notin {"tcp_resolve", "dns_next"}

\* On every would-block answer the resolver's token is waited on once and
\* the resolver asked again; the token is waited on only directly after a
\* would-block answer; after a final answer the resolver is not used again.
ResolverDiscipline ==
    /\ \A i \in 1..Len(tcpLog) :
          /\ (AskedAt(i) /\ tcpLog[i].answer = "would_block") =>
                (i < Len(tcpLog) /\ WaitedAt(i + 1))
          /\ WaitedAt(i) =>
                (i > 1 /\ tcpLog[i - 1] = Call("resolve_next_address", "would_block"))
          /\ (WaitedAt(i) /\ i < Len(tcpLog)) => AskedAt(i + 1)
          /\ i \in FinalAt => \A j \in (i + 1)..Len(tcpLog) : ~AskedAt(j) /\ ~WaitedAt(j)
    /\ Cardinality(FinalAt) <= 1
    /\ pc = "dns_next" => (FinalAt = {} /\ HasCall("resolve_addresses", "ok"))

\* What the caller did with the return value e of try_dns_resolve.
ResolveGave(e) ==
    IF FallbackApplies(host) THEN ip = FallbackIp
    ELSE tcpResult = Err(DnsErrorText(tcpFn, host, e)) /\ ip = NoIp

\* The return of try_dns_resolve for the final answer a.
ReturnFor(a) ==
    CASE a = "address" -> ip \in ResolvedIps
      [] a = "exhausted" -> ResolveGave(Chars("no IPs found"))
      [] OTHER -> ResolveGave(Chars("resolve error: ") \o DnsErr)

\* C18 as stated: try_dns_resolve returns only on one of the three final
\* answers of the resolver (first address, exhausted, error), and waits on
\* the token exactly once after every would-block answer and never else.
C18_ThreeAnswers ==
    /\ ResolverDiscipline
    /\ ResolveReturned => \E i \in FinalAt : ReturnFor(tcpLog[i].answer)

\* C18 amended: try_dns_resolve returns either because the resolution could
\* not be started (a 'resolve start' error, before the resolver is asked or
\* waited on at all) or on one of the three final answers of the resolver;
\* the waiting discipline is as stated.
C18_ResolveReturns ==
    /\ ResolverDiscipline
    /\ ResolveReturned =>
          IF HasCall("resolve_addresses", "error")
          THEN /\ \A i \in 1..Len(tcpLog) : ~AskedAt(i) /\ ~WaitedAt(i)
               /\ ResolveGave(Chars("resolve start: ") \o DnsErr)
          ELSE \E i \in FinalAt : ReturnFor(tcpLog[i].answer)

\* The resolver answered would-block, was waited on once, and then gave the
\* address the operation went on with.
C18_Witness ==
    /\ pc = "done" /\ ip \in ResolvedIps
    /\ \E i \in 1..(Len(tcpLog) - 2) :
          /\ tcpLog[i] = Call("resolve_next_address", "would_block")
          /\ tcpLog[i + 1] = Call("poll_resolver", "-")
          /\ tcpLog[i + 2] = Call("resolve_next_address", "address")

\* try_dns_resolve returned without an address.
ResolveFailed == ResolveReturned /\ ~HasCall("resolve_next_address", "address")

\* C19: when the resolution fails, tcp_send_message and tcp_get_host_port
\* apply the fallback exactly when the host is example.com: then the
\* operation goes on to create its socket and connect to 93.184.216.34 on the
\* requested port; for every other host it returns a DNS error, creates no
\* socket and starts no connect.
C19_FallbackOnlyExampleCom ==
    ResolveFailed =>
        IF host = Chars("example.com")
        THEN /\ ip = [fam |-> "v4", addr |-> <<93, 184, 216, 34>>]
             /\ (pc = "tcp_socket" /\ sockets = 0) \/ sockets = 1
             /\ tcpResult # NoResult => ~StartsWith(tcpResult.val, Chars("dns"))
             /\ connectStarts = 1 =>
                   remote = [fam |-> "v4", address |-> <<93, 184, 216, 34>>, port |-> port,
                             flow_info |-> 0, scope_id |-> 0]
        ELSE /\ ~tcpResult.ok /\ StartsWith(tcpResult.val, Chars("dns"))
             /\ sockets = 0 /\ connectStarts = 0 /\ handles = <<>>
             /\ pc \in {"tcp_ret", "respond", "done"}

\* The resolver was exhausted for example.com and tcp_send_message went on
\* to connect to the fallback address on the default port and got a reply.
C19_Witness ==
    /\ pc = "done" /\ tcpFn = "send" /\ host = Chars("example.com")
    /\ HasCall("resolve_next_address", "exhausted")
    /\ remote.address = <<93, 184, 216, 34>> /\ remote.port = 9090 /\ tcpResult.ok

\* finish_connect has given the answer that ends the connect loop.
ConnectEnded == HasCall("finish_connect", "pair") \/ HasCall("finish_connect", "error")

\* The streams of the connection have been written to or read from.
StreamsUsed ==
    \/ payload # <<>> \/ body # <<>> \/ buf # <<>>
    \/ readCalls > 0 \/ readWaits > 0 \/ bulkReads > 0
    \/ \E i \in 1..Len(tcpLog) : tcpLog[i].call \in {"blocking_write_and_flush", "input_subscribe"}

\* C20: the connect loop of tcp_send_message and tcp_get_host_port is left
\* only when finish_connect yields the stream pair or a terminal error; on
\* every would-block answer the connect token is waited on and
\* finish_connect retried, however often that happens; the streams are not
\* written or read before finish_connect has succeeded, and a terminal
\* error returns the connect failure without any write or read.
C20_ConnectLoop ==
    tcpFn # "none" =>
        /\ (pc = "tcp_connect") = (HasCall("start_connect", "ok") /\ ~ConnectEnded)
        /\ ~(HasCall("finish_connect", "pair") /\ HasCall("finish_connect", "error"))
        /\ \A i \in 1..Len(tcpLog) :
              /\ tcpLog[i] = Call("finish_connect", "would_block") =>
                    (i < Len(tcpLog) /\ tcpLog[i + 1] = Call("poll_connect", "-"))
              /\ tcpLog[i].call = "poll_connect" =>
                    /\ i > 1 /\ tcpLog[i - 1] = Call("finish_connect", "would_block")
                    /\ i < Len(tcpLog) => tcpLog[i + 1].call = "finish_connect"
              /\ (tcpLog[i].call = "finish_connect" /\ tcpLog[i].answer # "would_block") =>
                    \A j \in (i + 1)..Len(tcpLog) :
                        tcpLog[j].call \notin {"finish_connect", "poll_connect"}
        /\ ~HasCall("finish_connect", "pair") => ~StreamsUsed
        /\ HasCall("finish_connect", "pair") => pc \in {"tcp_write", "tcp_read_i", "tcp_read_b",
                                                           "tcp_ret", "respond", "done"}
        /\ HasCall("finish_connect", "error") =>
              /\ tcpResult = Err(Chars("finish_connect: ") \o TcpErr)
              /\ pc \in {"tcp_ret", "respond", "done"}
              /\ ~StreamsUsed

\* finish_connect answered would-block twice, each time followed by a wait
\* and a retry, then yielded the pair, and the message was written after it.
C20_Witness ==
    /\ pc = "done" /\ tcpFn = "send" /\ payload # <<>> /\ tcpResult.ok
    /\ \E i \in 1..(Len(tcpLog) - 5) :
          /\ tcpLog[i] = Call("finish_connect", "would_block")
          /\ tcpLog[i + 1] = Call("poll_connect", "-")
          /\ tcpLog[i + 2] = Call("finish_connect", "would_block")
          /\ tcpLog[i + 3] = Call("poll_connect", "-")
          /\ tcpLog[i + 4] = Call("finish_connect", "pair")
          /\ tcpLog[i + 5] = Call("blocking_write_and_flush", "ok")

(***************************************************************************)
(* C21                                                                     *)
(***************************************************************************)

\* The steps of handle still ahead of a position, in the order the code
\* takes them.  The positions of the outbound HTTP functions are passed
\* twice on /slack/command: by call_openai, then by the POST to the callback.
StepsAhead ==
    CASE pc = "start" -> 15
      [] pc \in {"read_body", "tcp_resolve"} -> 14
      [] pc \in {"call_openai", "debug_env", "dns_next"} -> 13
      [] pc = "tcp_socket" -> 12
      [] pc = "tcp_start" -> 11
      [] pc = "tcp_connect" -> 10
      [] pc = "tcp_write" -> 9
      [] pc \in {"tcp_read_i", "tcp_read_b"} -> 8
      [] pc = "http_parse" -> IF httpFn = "post_text" THEN 6 ELSE 12
      [] pc = "http_dispatch" -> IF httpFn = "post_text" THEN 5 ELSE 11
      [] pc = "http_wait" -> IF httpFn = "post_text" THEN 4 ELSE 10
      [] pc = "http_read" -> IF httpFn = "post_text" THEN 3 ELSE 9
      [] pc = "http_ret" -> IF httpFn = "post_text" THEN 2 ELSE 8
      [] pc = "slack_reply" -> 7
      [] pc = "tcp_ret" -> 2
      [] pc = "respond" -> 1
      [] OTHER -> 0

\* What the loops of the position may still use: would-block answers, chunks
\* of a bulk read, cycles of the interactive read.
LoopBudget ==
    (MaxWouldBlock - wouldBlocks) + (MaxChunks - chunksRead) + (ReadCycles - cycles)

\* A bound on the steps a handling has left.
Remaining == StepsAhead * 100 + LoopBudget

\* C21: with every call returning and every loop given an answer that ends
\* it, every inbound request handling on every route ends with its single
\* response written: each step brings the handling nearer its end (no
\* livelock in the DNS, connect, write, read and HTTP steps), and the step
\* that ends it leaves the response set once, its body written once and
\* finished once.
C21_EveryHandlingResponds ==
    [][ /\ Remaining' < Remaining
        /\ Remaining' >= 0
        /\ pc' \in {"done", "trapped"} =>
              (respSet' = 1 /\ bodyWrites' = 1 /\ bodyFinishes' = 1) ]_vars

(***************************************************************************)
(* C22                                                                     *)
(***************************************************************************)

\* The step is a read of the interactive loop that gave LastOperationFailed.
ReadFailedStep == readFails' = readFails + 1

\* The step is the read that ends the interactive loop.
LoopEndingStep == pc = "tcp_read_i" /\ pc' # "tcp_read_i"

\* C22: in the interactive read loop of tcp_send_message a read that gives
\* last-operation-failed uses up one of the 20 cycles after one wait on the
\* read token and one read, keeps the bytes accumulated so far, and ends the
\* loop only as the 20th cycle; the loop ends only on an empty read or a
\* closed stream (no byte added, no failure counted), at the byte cap or
\* with the cycles used up, and the function then returns success with the
\* accumulated bytes.
C22_TransientReadFailure ==
    [][ /\ ReadFailedStep =>
              /\ pc = "tcp_read_i"
              /\ cycles' = cycles + 1 /\ readWaits' = readWaits + 1
              /\ readCalls' = readCalls + 1
              /\ body' = body
              /\ cycles' < ReadCycles => pc' = "tcp_read_i"
        /\ LoopEndingStep =>
              /\ \/ body' = body /\ ~ReadFailedStep
                 \/ ByteLen(body') >= ByteCap
                 \/ cycles' = ReadCycles
              /\ tcpResult' = Ok(TrimNul(from_utf8_lossy(body')))
        /\ readFails' <= cycles' ]_vars

\* Every one of the 20 reads failed and tcp_send_message returned success
\* with nothing accumulated.
C22_Witness ==
    /\ readFails = ReadCycles /\ cycles = ReadCycles
    /\ tcpResult = Ok(<<>>)
    /\ pc = "done"

(***************************************************************************)
(* C23                                                                     *)
(***************************************************************************)

\* The host calls of a POST up to the dispatch, in the order claimed.
PostOrder == <<"new_request", "body_write", "writer_drop", "body_finish", "handle">>

\* The running HTTP client function has handed its request to
\* outgoing_handler::handle.
Dispatched == "handle" \in Range(httpLog)

OwnResult ==
    IF ~tcpResult.ok THEN tcpResult
    ELSE IF tcpFn = "get" THEN Ok(from_utf8_lossy(Flatten(chunkLog)))
    ELSE Ok(TrimNul(from_utf8_lossy(body)))

OwnResponse ==
    /\ host = ParamOr(QueryParams(split_path_and_query(path_q).query), "host", <<>>)
    /\ written = CASE route = "tcp_send" -> TcpSendText(OwnResult)
                    [] route = "default" -> TcpGetText(OwnResult)
                    [] OTHER -> Chars("ok")

SentByPeer == Flatten(chunkLog) \o unread

UnwaitedSlurpDone ==
    \/ TcpDrained
    \/ httpFn = "get" /\ bulkEnded /\ pc \in {"http_ret", "respond", "done"}

C25_SlurpReturnsEveryByte == UnwaitedSlurpDone => buf = SentByPeer

====
